---------------------------- MODULE Spec2Model ----------------------------
(***************************************************************************)
(* A model of the AI tutor (src/utils.py, src/app.py, src/config.py).      *)
(*                                                                         *)
(* Text is modelled at the level of characters: a Python str is a sequence *)
(* of characters, and a character is a one-character TLA+ string.  A       *)
(* character outside ASCII is named by its code point ("U+0431").          *)
(***************************************************************************)
EXTENDS Integers, Sequences, FiniteSets, TLC

(***************************************************************************)
(* Characters.                                                             *)
(***************************************************************************)
\* A character outside ASCII is written as the name of its code point:
\* "U+0431" is CYRILLIC SMALL LETTER BE.  The letters are those of the four
\* operator phrases of replace_textual_operators, one capital for lower(),
\* and U+2212 MINUS SIGN, which no step of compare_answers rewrites.

\* str.strip() and the regex class \s: the whitespace characters.
Whitespace == {" ", "\t"}

\* Code points, the order sorted() compares strings by.
Ord(ch) ==
  CASE ch = "\t" -> 9    [] ch = " " -> 32   [] ch = "(" -> 40   [] ch = ")" -> 41
    [] ch = "," -> 44    [] ch = "-" -> 45   [] ch = "." -> 46   [] ch = "/" -> 47
    [] ch = "0" -> 48    [] ch = "1" -> 49   [] ch = "2" -> 50   [] ch = "3" -> 51
    [] ch = "4" -> 52    [] ch = "5" -> 53   [] ch = "6" -> 54   [] ch = "7" -> 55
    [] ch = "8" -> 56    [] ch = "9" -> 57   [] ch = ";" -> 59   [] ch = "<" -> 60
    [] ch = "=" -> 61    [] ch = ">" -> 62   [] ch = "A" -> 65   [] ch = "B" -> 66
    [] ch = "C" -> 67    [] ch = "D" -> 68   [] ch = "X" -> 88   [] ch = "[" -> 91
    [] ch = "]" -> 93    [] ch = "a" -> 97   [] ch = "b" -> 98   [] ch = "c" -> 99
    [] ch = "d" -> 100   [] ch = "e" -> 101  [] ch = "f" -> 102  [] ch = "i" -> 105
    [] ch = "n" -> 110   [] ch = "o" -> 111  [] ch = "r" -> 114  [] ch = "t" -> 116
    [] ch = "x" -> 120   [] ch = "y" -> 121
    [] ch = "U+0411" -> 1041
    [] ch = "U+0430" -> 1072 [] ch = "U+0431" -> 1073 [] ch = "U+0432" -> 1074
    [] ch = "U+0435" -> 1077 [] ch = "U+0438" -> 1080 [] ch = "U+043B" -> 1083
    [] ch = "U+043C" -> 1084 [] ch = "U+043D" -> 1085 [] ch = "U+043E" -> 1086
    [] ch = "U+0440" -> 1088 [] ch = "U+0448" -> 1096 [] ch = "U+044C" -> 1100
    [] ch = "U+2212" -> 8722

\* str.lower() on one character.
LowerChar(ch) ==
  CASE ch = "A" -> "a" [] ch = "B" -> "b" [] ch = "C" -> "c" [] ch = "D" -> "d"
    [] ch = "X" -> "x" [] ch = "U+0411" -> "U+0431"
    [] OTHER -> ch

(***************************************************************************)
(* The str methods and regex calls compare_answers uses.                   *)
(***************************************************************************)
Lower(s) == [i \in 1..Len(s) |-> LowerChar(s[i])]

RECURSIVE LStrip(_)
LStrip(s) == IF s # <<>> /\ Head(s) \in Whitespace THEN LStrip(Tail(s)) ELSE s

RECURSIVE RStrip(_)
RStrip(s) ==
  IF s # <<>> /\ s[Len(s)] \in Whitespace THEN RStrip(SubSeq(s, 1, Len(s) - 1)) ELSE s

\* str.strip()
Strip(s) == RStrip(LStrip(s))

\* s.startswith(p)
StartsWith(s, p) == Len(s) >= Len(p) /\ SubSeq(s, 1, Len(p)) = p

\* sub in s
Contains(s, sub) ==
  \E i \in 0..(Len(s) - Len(sub)) : SubSeq(s, i + 1, i + Len(sub)) = sub

\* s.replace(old, new): leftmost occurrences, not overlapping (old is not empty).
RECURSIVE Replace(_, _, _)
Replace(s, old, new) ==
  IF Len(s) < Len(old) THEN s
  ELSE IF StartsWith(s, old)
       THEN new \o Replace(SubSeq(s, Len(old) + 1, Len(s)), old, new)
       ELSE <<Head(s)>> \o Replace(Tail(s), old, new)

\* re.sub(r"<class>+", "", s): every character of the class removed.
RemoveChars(s, class) == SelectSeq(s, LAMBDA ch : ch \notin class)

\* The length of the separator s starts with, 0 when it starts with none.
SepLen(s, seps) ==
  IF \E p \in seps : StartsWith(s, p)
  THEN Len(CHOOSE p \in seps : StartsWith(s, p))
  ELSE 0

\* re.split / str.split on a set of separators of which none is a prefix of
\* another: the pieces between the separators, empty pieces included.
RECURSIVE SplitFrom(_, _, _)
SplitFrom(s, cur, seps) ==
  IF s = <<>> THEN <<cur>>
  ELSE LET m == SepLen(s, seps)
       IN IF m > 0
          THEN <<cur>> \o SplitFrom(SubSeq(s, m + 1, Len(s)), <<>>, seps)
          ELSE SplitFrom(Tail(s), Append(cur, Head(s)), seps)

Split(s, seps) == SplitFrom(s, <<>>, seps)

\* a < b for two strings, as Python orders str: by code points, a proper
\* prefix first.
RECURSIVE StrLess(_, _)
StrLess(a, b) ==
  IF b = <<>> THEN FALSE
  ELSE IF a = <<>> THEN TRUE
  ELSE IF Head(a) = Head(b) THEN StrLess(Tail(a), Tail(b))
  ELSE Ord(Head(a)) < Ord(Head(b))

RECURSIVE Insert(_, _)
Insert(x, l) ==
  IF l = <<>> THEN <<x>>
  ELSE IF StrLess(Head(l), x) THEN <<Head(l)>> \o Insert(x, Tail(l))
  ELSE <<x>> \o l

\* sorted(l) for a list of strings
RECURSIVE Sorted(_)
Sorted(l) == IF l = <<>> THEN <<>> ELSE Insert(Head(l), Sorted(Tail(l)))

(***************************************************************************)
(* eval() of a Python expression, for the expressions that can be written  *)
(* with decimal digits, '.', '/', '-', '<', '>', '=' and names made of     *)
(* EvalLetters.  No parenthesis reaches eval: normalize_answer removes     *)
(* them.  A value is a rational n/d in lowest terms (a bool is the int 0   *)
(* or 1); st tells a value ("ok") from an exception raised while           *)
(* evaluating ("rt": NameError, ZeroDivisionError, TypeError, ValueError)  *)
(* and from a SyntaxError ("syn"), which is raised before anything is      *)
(* evaluated.  Floats are modelled as exact rationals.                     *)
(***************************************************************************)
Digits == {"0", "1", "2", "3", "4", "5", "6", "7", "8", "9"}

EvalLetters == {"a", "b", "c", "d", "x", "y"}

DigitVal(ch) == Ord(ch) - Ord("0")

Abs(n) == IF n < 0 THEN -n ELSE n

RECURSIVE Gcd(_, _)
Gcd(a, b) == IF b = 0 THEN a ELSE Gcd(b, a % b)

RECURSIVE Pow(_, _)
Pow(b, e) == IF e = 0 THEN 1 ELSE b * Pow(b, e - 1)

\* The rational n/d (d # 0) in lowest terms with a positive denominator.
Rat(st, n, d, int) ==
  LET g == Gcd(Abs(n), Abs(d))
      sg == IF d < 0 THEN -1 ELSE 1
  IN [st |-> st, n |-> sg * (n \div g), d |-> sg * (d \div g), int |-> int]

SynErr == [st |-> "syn", n |-> 0, d |-> 1, int |-> TRUE]

RtErr == [st |-> "rt", n |-> 0, d |-> 1, int |-> TRUE]

\* The number of leading characters of s that belong to class.
RECURSIVE SpanLen(_, _)
SpanLen(s, class) ==
  IF s # <<>> /\ Head(s) \in class THEN 1 + SpanLen(Tail(s), class) ELSE 0

\* int(s) for a string of decimal digits ("" is 0).
RECURSIVE DigitsValue(_)
DigitsValue(s) ==
  IF s = <<>> THEN 0
  ELSE 10 * DigitsValue(SubSeq(s, 1, Len(s) - 1)) + DigitVal(s[Len(s)])

Tok(k, len) == [k |-> k, len |-> len, n |-> 0, d |-> 1, int |-> TRUE]

\* A name character directly after the first len characters of s.
FollowedByName(s, len) == len < Len(s) /\ s[len + 1] \in EvalLetters

\* The token of i digits, a '.' and f digits ("12.5", "12.", ".5").
FloatToken(s, i, f) ==
  IF (i = 0 /\ f = 0) \/ FollowedByName(s, i + 1 + f) THEN Tok("bad", 1)
  ELSE [k |-> "num", len |-> i + 1 + f,
        n |-> DigitsValue(SubSeq(s, 1, i)) * Pow(10, f)
                + DigitsValue(SubSeq(s, i + 2, i + 1 + f)),
        d |-> Pow(10, f), int |-> FALSE]

\* The token of i digits of value ip: a nonzero integer with a leading zero
\* is no token.
IntToken(s, i, ip) ==
  IF FollowedByName(s, i) \/ (i > 1 /\ s[1] = "0" /\ ip # 0) THEN Tok("bad", 1)
  ELSE [k |-> "num", len |-> i, n |-> ip, d |-> 1, int |-> TRUE]

\* The number s starts with, i being the number of its leading digits.
NumberToken(s, i) ==
  IF i < Len(s) /\ s[i + 1] = "."
  THEN FloatToken(s, i, SpanLen(SubSeq(s, i + 2, Len(s)), Digits))
  ELSE IntToken(s, i, DigitsValue(SubSeq(s, 1, i)))

\* The first token of s (s is not empty): a number (an integer, or a float
\* "12.5", "12.", ".5"), a name, an operator, or "bad" for text that is no
\* token of an expression.  A number directly followed by a name character
\* and a lone '.' or '=' are no tokens.
FirstToken(s) ==
  IF Head(s) \in Digits \cup {"."} THEN NumberToken(s, SpanLen(s, Digits))
  ELSE IF Head(s) \in EvalLetters
       THEN Tok("name", SpanLen(s, EvalLetters \cup Digits))
  ELSE IF \E p \in {<<"<", "<", "=">>, <<">", ">", "=">>, <<"/", "/", "=">>} :
             StartsWith(s, p)
       THEN Tok("bad", 3)
  ELSE IF \E p \in {<<"/", "=">>, <<"-", "=">>, <<"-", ">">>} : StartsWith(s, p)
       THEN Tok("bad", 2)
  ELSE IF StartsWith(s, <<"/", "/">>) THEN Tok("//", 2)
  ELSE IF StartsWith(s, <<"<", "<">>) THEN Tok("<<", 2)
  ELSE IF StartsWith(s, <<">", ">">>) THEN Tok(">>", 2)
  ELSE IF StartsWith(s, <<"<", "=">>) THEN Tok("<=", 2)
  ELSE IF StartsWith(s, <<">", "=">>) THEN Tok(">=", 2)
  ELSE IF StartsWith(s, <<"=", "=">>) THEN Tok("==", 2)
  ELSE IF Head(s) \in {"/", "-", "<", ">"} THEN Tok(Head(s), 1)
  ELSE Tok("bad", 1)

RECURSIVE Tokenize(_)
\* the token t and the tokens of what follows it in s
TokenizeFrom(s, t) == <<t>> \o Tokenize(SubSeq(s, t.len + 1, Len(s)))

Tokenize(s) == IF s = <<>> THEN <<>> ELSE TokenizeFrom(s, FirstToken(s))

\* A parse result: a value and the tokens left.
WithRest(v, rest) == [v |-> v, rest |-> rest]

Neg(v) == IF v.st = "ok" THEN Rat("ok", -v.n, v.d, v.int) ELSE v

\* - r
NegFactor(r) == WithRest(Neg(r.v), r.rest)

\* factor: '-' factor | NUMBER | NAME (a name is not bound: NameError)
RECURSIVE ParseFactor(_)
ParseFactor(t) ==
  IF t = <<>> THEN WithRest(SynErr, <<>>)
  ELSE IF Head(t).k = "-" THEN NegFactor(ParseFactor(Tail(t)))
  ELSE IF Head(t).k = "num"
       THEN WithRest(Rat("ok", Head(t).n, Head(t).d, Head(t).int), Tail(t))
  ELSE IF Head(t).k = "name" THEN WithRest(RtErr, Tail(t))
  ELSE WithRest(SynErr, <<>>)

\* a.n/a.d divided by b.n/b.d (b.n # 0), the common factors cancelled first
Quotient(a, b) ==
  LET gn == Gcd(Abs(a.n), Abs(b.n))
      gd == Gcd(a.d, b.d)
  IN Rat("ok", (a.n \div gn) * (b.d \div gd), (a.d \div gd) * (b.n \div gn), FALSE)

\* math.floor(q), an int when int holds and a float otherwise
FloorOf(q, int) == Rat("ok", q.n \div q.d, 1, int)

\* a / b and a // b
Divide(op, a, b) ==
  IF a.st # "ok" \/ b.st # "ok" THEN RtErr
  ELSE IF b.n = 0 THEN RtErr
  ELSE IF op = "/" THEN Quotient(a, b)
  ELSE FloorOf(Quotient(a, b), a.int /\ b.int)

\* term: factor (('/' | '//') factor)*
RECURSIVE TermLoop(_, _)
\* acc op f, and the rest of the term
TermStep(op, acc, f) ==
  IF f.v.st = "syn" THEN f ELSE TermLoop(Divide(op, acc, f.v), f.rest)

TermLoop(acc, rest) ==
  IF rest # <<>> /\ Head(rest).k \in {"/", "//"}
  THEN TermStep(Head(rest).k, acc, ParseFactor(Tail(rest)))
  ELSE WithRest(acc, rest)

TermStart(f) == IF f.v.st = "syn" THEN f ELSE TermLoop(f.v, f.rest)

ParseTerm(t) == TermStart(ParseFactor(t))

Minus(a, b) ==
  LET g == Gcd(a.d, b.d)
  IN IF a.st # "ok" \/ b.st # "ok" THEN RtErr
     ELSE Rat("ok", a.n * (b.d \div g) - b.n * (a.d \div g), a.d * (b.d \div g),
              a.int /\ b.int)

\* arith: term ('-' term)*
RECURSIVE ArithLoop(_, _)
ArithStep(acc, f) ==
  IF f.v.st = "syn" THEN f ELSE ArithLoop(Minus(acc, f.v), f.rest)

ArithLoop(acc, rest) ==
  IF rest # <<>> /\ Head(rest).k = "-"
  THEN ArithStep(acc, ParseTerm(Tail(rest)))
  ELSE WithRest(acc, rest)

ArithStart(f) == IF f.v.st = "syn" THEN f ELSE ArithLoop(f.v, f.rest)

ParseArith(t) == ArithStart(ParseTerm(t))

\* a << b and a >> b: ints only (TypeError), b >= 0 (ValueError)
Shift(op, a, b) ==
  IF a.st # "ok" \/ b.st # "ok" THEN RtErr
  ELSE IF ~a.int \/ ~b.int \/ b.n < 0 THEN RtErr
  ELSE IF op = "<<" THEN Rat("ok", a.n * Pow(2, b.n), 1, TRUE)
  ELSE Rat("ok", a.n \div Pow(2, b.n), 1, TRUE)

\* shift: arith (('<<' | '>>') arith)*
RECURSIVE ShiftLoop(_, _)
ShiftStep(op, acc, f) ==
  IF f.v.st = "syn" THEN f ELSE ShiftLoop(Shift(op, acc, f.v), f.rest)

ShiftLoop(acc, rest) ==
  IF rest # <<>> /\ Head(rest).k \in {"<<", ">>"}
  THEN ShiftStep(Head(rest).k, acc, ParseArith(Tail(rest)))
  ELSE WithRest(acc, rest)

ShiftStart(f) == IF f.v.st = "syn" THEN f ELSE ShiftLoop(f.v, f.rest)

ParseShift(t) == ShiftStart(ParseArith(t))

\* a op b for two values
Holds(op, a, b) ==
  LET l == a.n * b.d
      r == b.n * a.d
  IN CASE op = "<" -> l < r
       [] op = ">" -> l > r
       [] op = "<=" -> l <= r
       [] op = ">=" -> l >= r
       [] op = "==" -> l = r

CompOps == {"<", ">", "<=", ">=", "=="}

\* The state of a chain after the link "left op f.v".
LinkState(state, op, left, v) ==
  IF state # "live" THEN state
  ELSE IF v.st = "rt" THEN "rt"
  ELSE IF Holds(op, left, v) THEN "live"
  ELSE "false"

\* comparison: shift (comp_op shift)*, a chain "a < b < c" being
\* "a < b and b < c": once a link is false the operands after it are not
\* evaluated.  state is "live" (every link so far holds), "false" or "rt".
RECURSIVE CompLoop(_, _, _, _)
CompStep(state, left, v, rest) ==
  CompLoop(state, IF state = "live" THEN v ELSE left, rest, TRUE)

CompLink(state, left, op, f) ==
  IF f.v.st = "syn" THEN f
  ELSE CompStep(LinkState(state, op, left, f.v), left, f.v, f.rest)

CompLoop(state, left, rest, any) ==
  IF rest # <<>> /\ Head(rest).k \in CompOps
  THEN CompLink(state, left, Head(rest).k, ParseShift(Tail(rest)))
  ELSE WithRest(
         IF state = "rt" THEN RtErr
         ELSE IF ~any THEN left
         ELSE IF state = "live" THEN Rat("ok", 1, 1, TRUE)
         ELSE Rat("ok", 0, 1, TRUE),
         rest)

CompStart(f) ==
  IF f.v.st = "syn" THEN f
  ELSE CompLoop(IF f.v.st = "rt" THEN "rt" ELSE "live", f.v, f.rest, FALSE)

ParseComparison(t) == CompStart(ParseShift(t))

\* The value of a parse that used every token.
Evaluated(r) == IF r.v.st = "syn" \/ r.rest # <<>> THEN SynErr ELSE r.v

\* eval(s): the value, or the exception
Eval(s) == Evaluated(ParseComparison(Tokenize(s)))

(***************************************************************************)
(* compare_answers (src/utils.py).                                         *)
(***************************************************************************)
\* An answer is None or a str: [none |-> TRUE] stands for None.
None == [none |-> TRUE, s |-> <<>>]

Str(s) == [none |-> FALSE, s |-> s]

\* str(x or "")
StrOrEmpty(x) == IF x.none THEN <<>> ELSE x.s

\* the phrase for ">=" ("bol'she ili ravno")
PhraseGE ==
  <<"U+0431", "U+043E", "U+043B", "U+044C", "U+0448", "U+0435", " ",
    "U+0438", "U+043B", "U+0438", " ", "U+0440", "U+0430", "U+0432", "U+043D", "U+043E">>

\* the phrase for "<=" ("men'she ili ravno")
PhraseLE ==
  <<"U+043C", "U+0435", "U+043D", "U+044C", "U+0448", "U+0435", " ",
    "U+0438", "U+043B", "U+0438", " ", "U+0440", "U+0430", "U+0432", "U+043D", "U+043E">>

\* the phrases for ">" ("bol'she") and "<" ("men'she")
PhraseGT == <<"U+0431", "U+043E", "U+043B", "U+044C", "U+0448", "U+0435">>

PhraseLT == <<"U+043C", "U+0435", "U+043D", "U+044C", "U+0448", "U+0435">>

SymGE == <<">", "=">>

SymLE == <<"<", "=">>

SymGT == <<">">>

SymLT == <<"<">>

\* The four replacements in the other order: the short phrases first.
replace_textual_operators_short_first(text) ==
  Replace(Replace(Replace(Replace(text, PhraseGT, SymGT), PhraseLT, SymLT),
                  PhraseGE, SymGE), PhraseLE, SymLE)

replace_textual_operators(text) ==
  Replace(Replace(Replace(Replace(text, PhraseGE, SymGE), PhraseLE, SymLE),
                  PhraseGT, SymGT), PhraseLT, SymLT)

normalize_answer(ans) ==
  RemoveChars(
    Replace(RemoveChars(ans, Whitespace),
            <<"i", "n", "f", "i", "n", "i", "t", "y">>, <<"i", "n", "f">>),
    {"(", ")"})

\* [">=", "<=", ">", "<"]
InequalityOps == {SymGE, SymLE, SymGT, SymLT}

HasInequalityOp(s) == \E op \in InequalityOps : Contains(s, op)

\* ["[", "]", "(", ")"]
BracketChars == {"[", "]", "(", ")"}

HasBracket(s) == \E c \in BracketChars : Contains(s, <<c>>)

\* the alternatives of the regex (?:and|or|,|;)
ClauseSeparators == {<<"a", "n", "d">>, <<"o", "r">>, <<",">>, <<";">>}

\* [normalize_answer(p) for p in parts if p]
NormalizedParts(parts) ==
  [i \in 1..Len(SelectSeq(parts, LAMBDA p : p # <<>>)) |->
     normalize_answer(SelectSeq(parts, LAMBDA p : p # <<>>)[i])]

\* the clauses of s: re.split(r"(?:and|or|,|;)", s), empty parts dropped, each
\* part normalized
Clauses(s) == NormalizedParts(Split(s, ClauseSeparators))

\* sorted([...])
ClauseList(s) == Sorted(Clauses(s))

\* set(l)
SetOf(l) == {l[i] : i \in 1..Len(l)}

\* set(s.split(","))
TokenSet(s) == SetOf(Split(s, {<<",">>}))

\* 1e-6 is 10^-ToleranceDigits
ToleranceDigits == 6

\* n1/d1 < n2/d2 for two fractions that are not negative, by their continued
\* fractions (no product is formed)
RECURSIVE FracLess(_, _, _, _)
FracLess(n1, d1, n2, d2) ==
  IF n1 \div d1 # n2 \div d2 THEN n1 \div d1 < n2 \div d2
  ELSE IF n2 % d2 = 0 THEN FALSE
  ELSE IF n1 % d1 = 0 THEN TRUE
  ELSE FracLess(d2, n2 % d2, d1, n1 % d1)

\* (i + r/d) * 10^k as an integer part and a remainder over d
RECURSIVE Scale(_, _, _, _)
Scale(i, r, d, k) ==
  IF k = 0 THEN [i |-> i, r |-> r]
  ELSE Scale(10 * i + (10 * r) \div d, (10 * r) % d, d, k - 1)

\* the two values compared with ==
IsEqual(a, b) == a.n = b.n /\ a.d = b.d

\* sa < sb + 1 and sb < sa + 1 for two scaled values sa.i + sa.r/da and
\* sb.i + sb.r/db
ScaledClose(sa, sb, da, db) ==
  IF sa.i = sb.i THEN TRUE
  ELSE IF sa.i = sb.i + 1 THEN FracLess(sa.r, da, sb.r, db)
  ELSE IF sb.i = sa.i + 1 THEN FracLess(sb.r, db, sa.r, da)
  ELSE FALSE

\* (a - base) * 10^6, for an integer base not above a
Scaled(a, base) == Scale(a.n \div a.d - base, a.n % a.d, a.d, ToleranceDigits)

\* the values a and b, of integer parts fa and fb not 2 or more apart
CloseFrom(a, b, base) == ScaledClose(Scaled(a, base), Scaled(b, base), a.d, b.d)

\* abs(a - b) < 1e-6 for two values: values two or more apart are told by
\* their integer parts; the others are compared after subtracting the smaller
\* integer part and scaling by 10^6, when the difference must be below 1.
IsClose(a, b) ==
  IF Abs(a.n \div a.d - b.n \div b.d) >= 2 THEN FALSE
  ELSE CloseFrom(a, b, IF a.n \div a.d < b.n \div b.d THEN a.n \div a.d ELSE b.n \div b.d)

\* a handler that catches nothing
ExceptNothing(e) == FALSE

\* except Exception: every exception eval() or abs() raises is caught
ExceptException(e) == e \in {"syn", "rt"}

\* if len(correct_norm) == 1 and correct_norm in {"a","b","c","d"}
IsLetterChoice(user_norm, correct_norm) ==
  Len(correct_norm) = 1 /\ correct_norm[1] \in {"a", "b", "c", "d"}

\* if any(op in user_norm for op in [">=", "<=", ">", "<"])
IsInequality(user_norm, correct_norm) == HasInequalityOp(user_norm)

\* if any(c in user_answer ...) or any(c in correct_answer ...)
IsInterval(user_answer, correct_answer) ==
  HasBracket(user_answer) \/ HasBracket(correct_answer)

\* if "," in user_norm or "," in correct_norm
IsSet(user_norm, correct_norm) ==
  Contains(user_norm, <<",">>) \/ Contains(correct_norm, <<",">>)

\* if "/" in user_norm or "/" in correct_norm
IsNumeric(user_norm, correct_norm) ==
  Contains(user_norm, <<"/">>) \/ Contains(correct_norm, <<"/">>)

Returned(shape, value) == [raised |-> FALSE, value |-> value, shape |-> shape]

Raised(shape) == [raised |-> TRUE, value |-> FALSE, shape |-> shape]

\* return user_norm[:1] == correct_norm
LetterBranch(user_norm, correct_norm) ==
  SubSeq(user_norm, 1, IF Len(user_norm) < 1 THEN Len(user_norm) ELSE 1) = correct_norm

\* the clause lists compared as they were written, not sorted
InequalityBranchUnsorted(user_norm, correct_norm) ==
  Clauses(user_norm) = Clauses(correct_norm)

\* return user_parts == correct_parts
InequalityBranch(user_norm, correct_norm) ==
  ClauseList(user_norm) = ClauseList(correct_norm)

\* return user_answer.replace(" ", "") == correct_answer.replace(" ", "")
IntervalBranch(user_answer, correct_answer) ==
  Replace(user_answer, <<" ">>, <<>>) = Replace(correct_answer, <<" ">>, <<>>)

\* return set(user_norm.split(",")) == set(correct_norm.split(","))
SetBranch(user_norm, correct_norm) == TokenSet(user_norm) = TokenSet(correct_norm)

\* a last line that returns False for every pair
PlainBranchNever(user_norm, correct_norm) == FALSE

\* return user_norm == correct_norm
PlainBranch(user_norm, correct_norm) == user_norm = correct_norm

\* The try block of the fraction branch with the two eval() results:
\* "return" with the value, "pass" when the handler caught an exception,
\* "raise" when an exception escapes.
TryBlock(user_val, correct_val) ==
  IF user_val.st = "ok" /\ correct_val.st = "ok"
  THEN [flow |-> "return", value |-> IsClose(user_val, correct_val)]
  ELSE IF ExceptException(IF user_val.st # "ok" THEN user_val.st ELSE correct_val.st)
       THEN [flow |-> "pass", value |-> FALSE]
  ELSE [flow |-> "raise", value |-> FALSE]

NumericBranch(user_norm, correct_norm) == TryBlock(Eval(user_norm), Eval(correct_norm))

\* The fraction branch left by return, by pass (on to the last line) or by
\* an exception.
AfterTry(numeric, user_norm, correct_norm) ==
  IF numeric.flow = "return" THEN Returned("numeric", numeric.value)
  ELSE IF numeric.flow = "raise" THEN Raised("numeric")
  ELSE Returned("plain", PlainBranch(user_norm, correct_norm))

\* lines 44-74: the branches, tried in the order of the code
Branches(user_answer, correct_answer, user_norm, correct_norm) ==
  IF IsLetterChoice(user_norm, correct_norm)
  THEN Returned("letter", LetterBranch(user_norm, correct_norm))
  ELSE IF IsInequality(user_norm, correct_norm)
  THEN Returned("inequality", InequalityBranch(user_norm, correct_norm))
  ELSE IF IsInterval(user_answer, correct_answer)
  THEN Returned("interval", IntervalBranch(user_answer, correct_answer))
  ELSE IF IsSet(user_norm, correct_norm)
  THEN Returned("set", SetBranch(user_norm, correct_norm))
  ELSE IF IsNumeric(user_norm, correct_norm)
  THEN AfterTry(NumericBranch(user_norm, correct_norm), user_norm, correct_norm)
  ELSE Returned("plain", PlainBranch(user_norm, correct_norm))

\* lines 41-42: user_norm and correct_norm
Normalized(user_answer, correct_answer) ==
  Branches(user_answer, correct_answer,
           normalize_answer(user_answer), normalize_answer(correct_answer))

\* lines 20-21 and 31-32: str(x or "").strip().lower(), the phrases replaced
Prepared(x) == replace_textual_operators(Lower(Strip(StrOrEmpty(x))))

\* compare_answers(user_answer, correct_answer): the value returned, the
\* return statement that produced it (shape), or the exception raised.
compare_answers(user_answer, correct_answer) ==
  Normalized(Prepared(user_answer), Prepared(correct_answer))

(***************************************************************************)
(* The answers compared: every text of at most a bounded number of         *)
(* fragments of one family, and None.                                      *)
(***************************************************************************)
\* a  A  b  )  .  space
LetterFragments ==
  {<<"a">>,
   <<"A">>,
   <<"b">>,
   <<")">>,
   <<".">>,
   <<" ">>}

\* x>=2   x<5   , x<5    and x>=2   2   ,
InequalityFragments ==
  {<<"x", ">", "=", "2">>,
   <<"x", "<", "5">>,
   <<",", " ", "x", "<", "5">>,
   <<" ", "a", "n", "d", " ", "x", ">", "=", "2">>,
   <<"2">>,
   <<",">>}

\* [2,   (2,   inf)    inf)   <tab>inf)   infinity)
IntervalFragments ==
  {<<"[", "2", ",">>,
   <<"(", "2", ",">>,
   <<"i", "n", "f", ")">>,
   <<" ", "i", "n", "f", ")">>,
   <<"\t", "i", "n", "f", ")">>,
   <<"i", "n", "f", "i", "n", "i", "t", "y", ")">>}

\* 2   ,-2   ,2   -2   ,   ,0   and 2 after U+2212 MINUS SIGN
SetFragments ==
  {<<"2">>,
   <<",", "-", "2">>,
   <<",", "2">>,
   <<"-", "2">>,
   <<",">>,
   <<",", "0">>,
   <<"U+2212", "2">>}

\* >   <   =3   " ili ravno 3"   "bol'she"   "men'she" (the phrases of
\* replace_textual_operators, in Cyrillic)
TextualFragments ==
  {<<">">>,
   <<"<">>,
   <<"=", "3">>,
   SubSeq(PhraseGE, Len(PhraseGT) + 1, Len(PhraseGE)) \o <<" ", "3">>,
   PhraseGT,
   PhraseLT}

\* 1/   2   3   0   0.5   0.333333   0.34
NumericFragments ==
  {<<"1", "/">>,
   <<"2">>,
   <<"3">>,
   <<"0">>,
   <<"0", ".", "5">>,
   <<"0", ".", "3", "3", "3", "3", "3", "3">>,
   <<"0", ".", "3", "4">>}

\* a   >   ,   (   /   1   /1   >0
MixedFragments ==
  {<<"a">>,
   <<">">>,
   <<",">>,
   <<"(">>,
   <<"/">>,
   <<"1">>,
   <<"/", "1">>,
   <<">", "0">>}

Families ==
  {LetterFragments, InequalityFragments, IntervalFragments, SetFragments,
   TextualFragments, NumericFragments, MixedFragments}

\* The number of fragments of an answer.
MaxFragments == 2

\* "".join(fs)
RECURSIVE Join(_)
Join(fs) == IF fs = <<>> THEN <<>> ELSE Head(fs) \o Join(Tail(fs))

Texts(fragments) == {Join(fs) : fs \in UNION {[1..k -> fragments] : k \in 0..MaxFragments}}

Answers(fragments) == {None} \cup {Str(s) : s \in Texts(fragments)}

(***************************************************************************)
(* The theory test (src/app.py, src/config.py): the questions a generation *)
(* call can return.  A question is a dict or something else; of a dict the *)
(* model keeps the number of its options, lettered "A", "B", ... in order, *)
(* and its correct_answer.                                                 *)
(***************************************************************************)
\* APP_CONFIG["theory_questions_count"]
theory_questions_count == 10

OptionLetters == <<"A", "B", "C", "D", "E">>

\* {"question": ..., "options": [...], "correct_answer": ...}
Question(options, correct_answer) ==
  [dict |-> TRUE, options |-> options, correct_answer |-> correct_answer]

\* an item of the list that is not a dict (a string, a number, null)
NotADict == [dict |-> FALSE, options |-> 0, correct_answer |-> "none"]

\* The question the prompt asks for at position i (from 1): 4 options and a
\* letter A-D.
AskedQuestion(i) == Question(4, OptionLetters[((i - 1) % 4) + 1])

\* Items the prompt did not ask for: 3 options, 5 options, no options, a
\* letter outside A-D, no correct_answer, not a dict.
MalformedItems ==
  {Question(3, "A"), Question(5, "B"), Question(0, "A"), Question(4, "E"),
   Question(4, "none"), NotADict}

\* The longest list of questions a response holds.
MaxQuestions == 11

\* The lists a response can hold: n questions as asked, the last of them
\* possibly replaced by a malformed item.
QuestionLists ==
  LET asked(n) == [i \in 1..n |-> AskedQuestion(i)]
  IN {asked(n) : n \in 0..MaxQuestions}
       \cup {[asked(n) EXCEPT ![n] = m] : n \in 1..MaxQuestions, m \in MalformedItems}

\* FALLBACK_QUESTIONS["questions"]
FALLBACK_QUESTIONS == <<Question(4, "B"), Question(4, "A")>>

\* What cached_generate_questions returns (_call_deepseek_api):
\*   error       {"error": ...}
\*   questions   a dict with the key "questions"
\*   content     a dict with the key "content" and no "questions"; its text
\*               holds no {...} (nomatch), a {...} that is no JSON (invalid),
\*               or a JSON object with the key "questions" (object) or
\*               without it (object_noquestions)
\*   other       a dict with neither key, or no dict at all
QData(kind, text, questions) == [kind |-> kind, text |-> text, questions |-> questions]

GeneratorOutcomes ==
  {QData("error", "-", <<>>), QData("other", "-", <<>>),
   QData("content", "nomatch", <<>>), QData("content", "invalid", <<>>),
   QData("content", "object_noquestions", <<>>)}
    \cup {QData("questions", "-", qs) : qs \in QuestionLists}
    \cup {QData("content", "object", qs) : qs \in QuestionLists}

\* lines 479-496 of show_theory_test: the list stored for qdata
StoredQuestions(qdata) ==
  IF qdata.kind = "questions" THEN qdata.questions
  ELSE IF qdata.kind = "content" /\ qdata.text = "object" THEN qdata.questions
  ELSE IF qdata.kind = "content" /\ qdata.text = "object_noquestions" THEN <<>>
  ELSE FALLBACK_QUESTIONS

\* The message show_theory_test shows with the stored list: the st.info of
\* line 495 when nothing was parsed, the st.error of line 530 when the
\* stored list is empty, no message otherwise.
QuizMessage(qdata) ==
  IF ~(qdata.kind = "questions" \/ (qdata.kind = "content" /\ qdata.text \in {"object", "object_noquestions"}))
  THEN "offline_set"
  ELSE IF StoredQuestions(qdata) = <<>> THEN "not_generated"
  ELSE "none"

(***************************************************************************)
(* _call_deepseek_api (src/app.py): the requests of one call.  A request   *)
(* ends with a timeout, an HTTP error status, another exception (a body    *)
(* that is not the expected JSON included), status 402, or a response      *)
(* whose content json.loads and the regex turn into a value.               *)
(***************************************************************************)
\* DEEPSEEK_CONFIG["retry_attempts"]
retry_attempts == 3

\* DEEPSEEK_CONFIG["theory_topup_retries"]; no line of src/ reads it
theory_topup_retries == 2

\* attempts = max(1, retry_attempts)
attempts == IF retry_attempts < 1 THEN 1 ELSE retry_attempts

\* {"error": marker}
ErrorMarker(marker) == QData("error", marker, <<>>)

RequestOutcome(kind, content) == [kind |-> kind, content |-> content]

\* the except clauses that go on to the next attempt
FailureOutcomes ==
  {RequestOutcome(kind, ErrorMarker(kind)) : kind \in {"timeout", "http_error", "exception"}}

\* the outcomes that end the loop at once: status 402 and a response
TerminalOutcomes ==
  {RequestOutcome("402", ErrorMarker("402"))}
    \cup {RequestOutcome("response", content) : content \in GeneratorOutcomes}

\* What the call returns, the number of requests it sent, and whether the
\* value returned is the content of a response.
ApiReturn(value, requests, answered) ==
  [value |-> value, requests |-> requests, answered |-> answered]

\* for attempt in range(attempts): ... (lines 214-258), from attempt on
RECURSIVE request_loop(_, _)
request_loop(outcomes, attempt) ==
  IF outcomes[attempt + 1].kind = "402"
  THEN ApiReturn(ErrorMarker("402"), attempt + 1, FALSE)
  ELSE IF outcomes[attempt + 1].kind = "response"
  THEN ApiReturn(outcomes[attempt + 1].content, attempt + 1, TRUE)
  ELSE IF attempt = attempts - 1
  THEN ApiReturn(outcomes[attempt + 1].content, attempt + 1, FALSE)
  ELSE request_loop(outcomes, attempt + 1)

\* the requests are sent whether the generation is enabled or not
call_regardless(enabled, outcomes) == request_loop(outcomes, 0)

\* _call_deepseek_api(prompt) with DEEPSEEK_ENABLED = enabled and the
\* requests ending as outcomes say
call_deepseek_api(enabled, outcomes) ==
  IF ~enabled THEN ApiReturn(ErrorMarker("deepseek_disabled"), 0, FALSE)
  ELSE request_loop(outcomes, 0)

\* The runs of the request loop: failures, then the outcome of the last
\* request sent (any outcome when it is the last attempt).
ApiRuns ==
  UNION {{failures \o <<last>> :
            failures \in [1..(k - 1) -> FailureOutcomes],
            last \in (IF k = attempts THEN FailureOutcomes \cup TerminalOutcomes
                      ELSE TerminalOutcomes)} : k \in 1..attempts}

\* Everything a call can return.
ApiCalls ==
  {call_deepseek_api(FALSE, <<>>)} \cup {call_deepseek_api(TRUE, run) : run \in ApiRuns}

\* json.loads(content) for the content null: None
NullContent == QData("other", "null", <<>>)

\* The contents of the responses of a single call that is followed to its
\* return: null, a dict with the key "error" and a dict with a question.
ResponseContents ==
  {NullContent, QData("error", "-", <<>>), QData("questions", "-", <<AskedQuestion(1)>>)}

\* What a request can meet, and what the requests of a call would meet,
\* attempt by attempt (a request that is not sent meets nothing).
RequestOutcomes ==
  FailureOutcomes \cup {RequestOutcome("402", ErrorMarker("402"))}
    \cup {RequestOutcome("response", content) : content \in ResponseContents}

RequestRuns == [1..attempts -> RequestOutcomes]

\* A key that is not in st.session_state, and a key that holds a value.
Absent == [present |-> FALSE, value |-> <<>>]

Present(value) == [present |-> TRUE, value |-> value]

\* The titles of the videos of a playlist, and the longest playlist.
Titles == {"t1", "t2"}

MaxVideos == 2

Playlists == UNION {[1..n -> Titles] : n \in 1..MaxVideos}

\* The questions the learner gets to answer in the model: the first ones.
MaxAnswered == 2

\* The browser sessions that share the progress store.
Sessions == {"A", "B"}

(***************************************************************************)
(* The practice stage (src/app.py): the task map a generation call can     *)
(* return.  A task is kept as where it comes from (the generator's tier    *)
(* and position, or the fallback set) and its answer.                      *)
(***************************************************************************)
\* APP_CONFIG["max_attempts_per_task"]
max_attempts_per_task == 3

\* ['easy', 'medium', 'hard']
task_types == <<"easy", "medium", "hard">>

TierNames == {task_types[i] : i \in 1..Len(task_types)}

\* d.get(k, default) and d[k] = v for a dict d
Get(d, k, default) == IF k \in DOMAIN d THEN d[k] ELSE default

Put(d, k, v) == [x \in DOMAIN d \cup {k} |-> IF x = k THEN v ELSE d[x]]

\* {"question": ..., "answer": ..., "solution": ..., "hint": ...}
Task(origin, tier, position, answer) ==
  [origin |-> origin, tier |-> tier, position |-> position, answer |-> answer]

\* The task the generator returns at position i (from 1) of a tier; its
\* answer is "2".
GeneratedTask(tier, i) == Task("generated", tier, i, Str(<<"2">>))

\* FALLBACK_TASKS: one task a tier, with the answers 12, x>=5 and 2,3
FALLBACK_TASKS ==
  [easy |-> <<Task("fallback", "easy", 1, Str(<<"1", "2">>))>>,
   medium |-> <<Task("fallback", "medium", 1, Str(<<"x", ">", "=", "5">>))>>,
   hard |-> <<Task("fallback", "hard", 1, Str(<<"2", ",", "3">>))>>]

\* The longest list of tasks a tier of a response holds.
MaxTasks == 2

\* The task map with n[t] tasks in the tier t, for the tiers n names.
TaskMap(n) == [t \in DOMAIN n |-> [i \in 1..n[t] |-> GeneratedTask(t, i)]]

\* The task maps a response can hold: any of the tiers, each with 0 to
\* MaxTasks tasks.
TaskPayloads ==
  UNION {{TaskMap(n) : n \in [present -> 0..MaxTasks]} : present \in SUBSET TierNames}

\* What cached_generate_tasks returns (_call_deepseek_api):
\*   dict      a dict without the key "content": the task map it holds (an
\*             error marker holds no tier)
\*   content   a dict with the key "content"; its text holds no {...}
\*             (nomatch), a {...} that is no JSON (invalid), or a JSON
\*             object (object) with the task map
\*   other     no dict at all
TData(kind, text, tasks) == [kind |-> kind, text |-> text, tasks |-> tasks]

\* A call cached_generate_tasks(title, ...) and what it returned.
TaskCall(data, title) ==
  [kind |-> data.kind, text |-> data.text, tasks |-> data.tasks, title |-> title]

NoData == TaskCall(TData("none", "-", <<>>), "none")

TaskOutcomes ==
  {TData("other", "-", <<>>), TData("content", "nomatch", <<>>),
   TData("content", "invalid", <<>>)}
    \cup {TData("dict", "-", payload) : payload \in TaskPayloads}
    \cup {TData("content", "object", payload) : payload \in TaskPayloads}

\* all(k in tdata for k in ("easy", "medium", "hard"))
AllTiers(tasks) == TierNames \subseteq DOMAIN tasks

\* lines 607-624 of show_practice_stage: the task map stored for tdata
StoredTasks(tdata) ==
  IF tdata.kind = "dict" /\ AllTiers(tdata.tasks) THEN tdata.tasks
  ELSE IF tdata.kind = "content" /\ tdata.text = "object" /\ AllTiers(tdata.tasks)
       THEN tdata.tasks
  ELSE FALLBACK_TASKS

\* any(len(practice_tasks.get(t, [])) for t in ['easy','medium','hard'])
AnyTasks(tasks) == \E t \in TierNames : Len(Get(tasks, t, <<>>)) > 0

\* the last tier follows whatever tier is used up
LastTierNext(type) == "hard"

\* task_types[task_types.index(type) + 1]
NextTier(type) == IF type = "easy" THEN "medium" ELSE "hard"

Position(type, index) == [type |-> type, index |-> index]

\* lines 642-647 of show_current_task, rerun after rerun: a tier whose
\* tasks are used up is left for the next one, at index 0
RECURSIVE Settle(_, _, _)
Settle(tasks, type, index) ==
  IF index >= Len(Get(tasks, type, <<>>)) /\ type # "hard"
  THEN Settle(tasks, NextTier(type), 0)
  ELSE Position(type, index)

\* The position show_current_task shows after a rerun.
Shown(tasks, type, index) ==
  IF AnyTasks(tasks) THEN Settle(tasks, type, index) ELSE Position(type, index)

\* the completion screen is not shown past the last task
NeverCompleted(tasks, position) == FALSE

\* lines 642-649: the position is past the last task of the last tier, and
\* show_practice_completion is shown
Completed(tasks, position) ==
  /\ AnyTasks(tasks)
  /\ position.index >= Len(Get(tasks, position.type, <<>>))

\* The answers typed into the text input of a task: 2, 12 and a blank.
TypedAnswers == {Str(<<"2">>), Str(<<"1", "2">>), Str(<<" ">>)}

\* The most hints a task key holds in the model.
MaxHints == 1

(***************************************************************************)
(* The state: one call of compare_answers (user_answer, correct_answer,    *)
(* result, pc) and the session of the application (st.session_state).      *)
(* completed_topics holds the topic keys of the completed topics of the    *)
(* selected course, theory_answers the dict from question index (from 0)   *)
(* to the first character of the selected option.  The five keys of the    *)
(* practice stage are set and deleted together: while 'practice_tasks' is  *)
(* absent the other four hold their starting values.  hints holds, for a   *)
(* task key, the number of hints in st.session_state[task_key]['hints'];   *)
(* tdata is the last call of cached_generate_tasks (the title it was made  *)
(* for) and what it returned.                                              *)
(* The progress store is the local file and the cloud row; progress is the *)
(* st.session_state.progress of each of the browser sessions; saved keeps, *)
(* for a topic key, the record of the latest save to that key.             *)
(* selected_course is the pair of selected_subject and selected_grade,     *)
(* videos_course the pair the stored videos were loaded for.  theory_score *)
(* is the stored theory score of the current topic, difficulty and         *)
(* performance_adjustment what the two generation requests derive from it. *)
(* api_outcomes is what the requests of one call of _call_deepseek_api     *)
(* meet, attempt by attempt, and api_result what the call returned.        *)
(***************************************************************************)
VARIABLES user_answer, correct_answer, result, pc,
          current_stage, videos, current_video_index, completed_topics,
          theory_questions, theory_answers, generation,
          practice_tasks, task_attempts, completed_tasks, current_task_type,
          current_task_index, hints, tdata,
          local_file, cloud, cloud_on, progress, saved,
          selected_course, videos_course,
          theory_score, difficulty, performance_adjustment,
          api_outcomes, api_result

compare_vars == <<user_answer, correct_answer, result, pc>>

\* the quiz: the two keys of st.session_state, and the record of the
\* generation that produced the stored questions
theory_vars == <<theory_questions, theory_answers, generation>>

\* the keys show_practice_completion deletes, and the record of the
\* generation
practice_keys ==
  <<practice_tasks, task_attempts, completed_tasks, current_task_type,
    current_task_index, tdata>>

practice_vars == <<practice_keys, hints>>

store_vars == <<local_file, cloud, cloud_on, progress, saved>>

\* the course of the sidebar and the course of the videos
course_vars == <<selected_course, videos_course>>

\* the stored theory score and the settings derived from it
adapt_vars == <<theory_score, difficulty, performance_adjustment>>

\* one call of _call_deepseek_api
api_vars == <<api_outcomes, api_result>>

session_vars ==
  <<current_stage, videos, current_video_index, completed_topics, theory_vars,
    practice_vars, store_vars, course_vars, adapt_vars, api_vars>>

\* what the steps of the video and theory stages leave alone
beside_theory ==
  <<compare_vars, practice_vars, store_vars, course_vars, adapt_vars, api_vars>>

vars == <<compare_vars, session_vars>>

NoResult == [raised |-> FALSE, value |-> FALSE, shape |-> "none"]

\* The courses of the sidebar, as pairs of subject and grade; the
\* selectboxes start at the first subject and its first grade.
Courses == {<<"algebra", "7">>, <<"algebra", "8">>}

FirstCourse == <<"algebra", "7">>

\* f"{subject}_{grade}_{title}"
TopicKeyOf(course, title) == <<course, title>>

\* No videos are loaded.
NoCourse == <<"none", "none">>

\* No quiz was produced: no call, no request, no message.
NoGeneration ==
  [calls |-> 0, requests |-> 0, answered |-> FALSE, error |-> FALSE,
   message |-> "none", title |-> "none"]

\* 'practice_tasks' and the four keys set with it are not in the session.
NoPractice ==
  /\ practice_tasks = Absent
  /\ task_attempts = <<>>
  /\ completed_tasks = <<>>
  /\ current_task_type = "easy"
  /\ current_task_index = 0
  /\ tdata = NoData

\* No browser session has started, nothing is stored.
NoStore ==
  /\ local_file = Absent
  /\ cloud = Absent
  /\ cloud_on = FALSE
  /\ progress = [s \in Sessions |-> Absent]
  /\ saved = <<>>

\* _call_deepseek_api was not called.
NotCalled == [called |-> FALSE, enabled |-> FALSE, ret |-> ApiReturn(ErrorMarker("none"), 0, FALSE)]

NoApiCall ==
  /\ api_outcomes = <<>>
  /\ api_result = NotCalled

\* get_theory_score() returns None
NoScore == [value |-> 0, present |-> FALSE]

\* No setting was derived yet.
Unset == [with_videos |-> FALSE, level |-> "unset"]

\* No theory score is stored, no generation request was built.
NoAdaptation ==
  /\ theory_score = NoScore
  /\ difficulty = Unset
  /\ performance_adjustment = "unset"

\* SessionManager.__init__ on an empty st.session_state; progress is what
\* load_progress() returns.
SessionInit(completed) ==
  /\ current_stage = "selection"
  /\ videos = <<>>
  /\ current_video_index = 0
  /\ completed_topics = {TopicKeyOf(FirstCourse, title) : title \in completed}
  /\ theory_questions = Absent
  /\ theory_answers = Absent
  /\ generation = NoGeneration
  /\ NoPractice
  /\ hints = <<>>
  /\ selected_course = FirstCourse
  /\ videos_course = NoCourse
  /\ NoAdaptation
  /\ NoApiCall

CompareInit(fragments) ==
  /\ user_answer \in Answers(fragments)
  /\ correct_answer \in Answers(fragments)
  /\ result = NoResult
  /\ pc = "call"
  /\ SessionInit({})
  /\ NoStore

\* is_correct = compare_answers(user_answer, correct_answer)
Compare ==
  /\ pc = "call"
  /\ result' = compare_answers(user_answer, correct_answer)
  /\ pc' = "done"
  /\ UNCHANGED <<user_answer, correct_answer>>
  /\ UNCHANGED session_vars

CompareNext == Compare

LetterSpec == CompareInit(LetterFragments) /\ [][CompareNext]_vars

InequalitySpec == CompareInit(InequalityFragments) /\ [][CompareNext]_vars

IntervalSpec == CompareInit(IntervalFragments) /\ [][CompareNext]_vars

SetSpec == CompareInit(SetFragments) /\ [][CompareNext]_vars

TextualSpec == CompareInit(TextualFragments) /\ [][CompareNext]_vars

NumericSpec == CompareInit(NumericFragments) /\ [][CompareNext]_vars

MixedSpec == CompareInit(MixedFragments) /\ [][CompareNext]_vars

CompareSpec ==
  (\E fragments \in Families : CompareInit(fragments)) /\ [][CompareNext]_vars

(***************************************************************************)
(* The session: course start, video navigation and the theory test.        *)
(***************************************************************************)
Init ==
  /\ user_answer = None
  /\ correct_answer = None
  /\ result = NoResult
  /\ pc = "idle"
  /\ \E completed \in SUBSET Titles : SessionInit(completed)
  /\ NoStore

\* the course starts past its last video
StartPastEnd(vs, completed) == Len(vs)

\* start_course: the index (from 0) of the first video whose title is not
\* completed, 0 when there is none
StartIndex(vs, completed) ==
  LET open == {i \in 1..Len(vs) : vs[i] \notin completed}
  IN IF open = {} THEN 0 ELSE (CHOOSE i \in open : \A j \in open : i <= j) - 1

\* completed_titles of start_course: the titles of the completed topics
\* whose key starts with the selected subject and grade
completed_titles ==
  {key[2] : key \in {k \in completed_topics : k[1] = selected_course}}

\* main: the sidebar button with a playlist that loaded; start_course(videos)
start_course(vs) ==
  /\ videos' = vs
  /\ current_video_index' = StartIndex(vs, completed_titles)
  /\ current_stage' = "video"
  /\ videos_course' = selected_course
  /\ UNCHANGED <<completed_topics, theory_vars, selected_course>>
  /\ UNCHANGED <<compare_vars, practice_vars, store_vars, adapt_vars, api_vars>>

\* display_video_content: the button to the test; set_stage('theory_test')
ReadyForTest ==
  /\ current_stage = "video"
  /\ videos # <<>>
  /\ current_stage' = "theory_test"
  /\ UNCHANGED <<videos, current_video_index, completed_topics, theory_vars>>
  /\ UNCHANGED beside_theory

\* display_video_content: the button to the previous lesson; prev_video()
prev_video ==
  /\ current_stage = "video"
  /\ videos # <<>>
  /\ current_video_index > 0
  /\ current_video_index' = current_video_index - 1
  /\ UNCHANGED <<current_stage, videos, completed_topics, theory_vars>>
  /\ UNCHANGED beside_theory

\* display_video_content: the button to the next lesson; next_video()
next_video ==
  /\ current_stage = "video"
  /\ videos # <<>>
  /\ current_video_index < Len(videos) - 1
  /\ current_video_index' = current_video_index + 1
  /\ UNCHANGED <<current_stage, videos, completed_topics, theory_vars>>
  /\ UNCHANGED beside_theory

\* questions are generated again as long as the stored list is short
RegenerateWhenShort ==
  \/ ~theory_questions.present
  \/ Len(theory_questions.value) < theory_questions_count

\* if 'theory_questions' not in st.session_state
NeedsGeneration == ~theory_questions.present

\* show_theory_test with no 'theory_questions' in the session: one call of
\* cached_generate_questions (api is what _call_deepseek_api did), the
\* questions are stored, the answers start empty
GenerateQuestions(api) ==
  /\ current_stage = "theory_test"
  /\ NeedsGeneration
  /\ theory_questions' = Present(StoredQuestions(api.value))
  /\ theory_answers' = Present(<<>>)
  /\ generation' =
       [calls |-> generation.calls + 1,
        requests |-> generation.requests + api.requests,
        answered |-> api.answered,
        error |-> api.value.kind = "error", message |-> QuizMessage(api.value),
        title |-> videos[current_video_index + 1]]
  /\ UNCHANGED <<current_stage, videos, current_video_index, completed_topics>>
  /\ UNCHANGED beside_theory

\* The questions are all dicts: the loop that shows them runs to its end.
AllShown(questions) == \A j \in 1..Len(questions) : questions[j].dict

\* show_theory_test: an option of question i (from 0) is selected;
\* theory_answers[i] = selected[0]
SelectAnswer(i, option) ==
  /\ current_stage = "theory_test"
  /\ theory_questions.present
  /\ i < Len(theory_questions.value)
  /\ \A j \in 1..(i + 1) : theory_questions.value[j].dict
  /\ option \in 1..theory_questions.value[i + 1].options
  /\ theory_answers' =
       Present([j \in DOMAIN theory_answers.value \cup {i} |->
                  IF j = i THEN OptionLetters[option] ELSE theory_answers.value[j]])
  /\ UNCHANGED <<current_stage, videos, current_video_index, completed_topics,
                 theory_questions, generation>>
  /\ UNCHANGED beside_theory

\* show_theory_test: the button back to the video; clear_theory_data() and
\* set_stage('video')
ReturnToVideo ==
  /\ current_stage = "theory_test"
  /\ theory_questions.present
  /\ theory_questions.value # <<>>
  /\ AllShown(theory_questions.value)
  /\ theory_questions' = Absent
  /\ theory_answers' = Absent
  /\ generation' = NoGeneration
  /\ current_stage' = "video"
  /\ UNCHANGED <<videos, current_video_index, completed_topics>>
  /\ UNCHANGED beside_theory

Next ==
  \/ \E vs \in Playlists : start_course(vs)
  \/ ReadyForTest
  \/ prev_video
  \/ next_video
  \/ \E api \in ApiCalls : GenerateQuestions(api)
  \/ \E i \in 0..(MaxAnswered - 1), option \in 1..Len(OptionLetters) : SelectAnswer(i, option)
  \/ ReturnToVideo

Spec == Init /\ [][Next]_vars

\* The session with the steps that produce and discard a quiz only.
GenerationNext ==
  \/ \E vs \in Playlists : start_course(vs)
  \/ ReadyForTest
  \/ \E api \in ApiCalls : GenerateQuestions(api)
  \/ ReturnToVideo

GenerationSpec == Init /\ [][GenerationNext]_vars

(***************************************************************************)
(***************************************************************************)
(* The practice stage: its entry from the results of the theory test, the  *)
(* generation of the tasks, the check of an answer, the move to the next   *)
(* task and the two buttons of the completion screen.  A step ends with    *)
(* the rerun of the script, which leaves a tier without tasks left for the *)
(* next tier and, on the completion screen, saves the practice score (the  *)
(* topic of the current video joins the completed topics).                 *)
(***************************************************************************)
CurrentTitle == videos[current_video_index + 1]

\* topic_key = f"{session.get_subject()}_{session.get_grade()}_{title}"
current_topic_key == TopicKeyOf(selected_course, CurrentTitle)

\* show_practice_completion is what the practice stage shows for the task
\* map and the position
CompletionShown(tasks, type, index) ==
  tasks.present /\ Completed(tasks.value, Position(type, index))

\* save_practice_score(topic_key, ...) of show_practice_completion, when it
\* is shown: the completed topics afterwards
SavedOnRender(shown) ==
  IF shown THEN completed_topics \cup {current_topic_key} ELSE completed_topics

\* show_theory_test and show_theory_results: "check the answers" with every
\* question answered, then "start the practice"; clear_theory_data() and
\* set_stage('practice')
StartPractice ==
  /\ current_stage = "theory_test"
  /\ theory_questions.present
  /\ theory_questions.value # <<>>
  /\ AllShown(theory_questions.value)
  /\ Cardinality(DOMAIN theory_answers.value) = Len(theory_questions.value)
  /\ theory_questions' = Absent
  /\ theory_answers' = Absent
  /\ generation' = NoGeneration
  /\ current_stage' = "practice"
  /\ completed_topics' =
       SavedOnRender(CompletionShown(practice_tasks, current_task_type, current_task_index))
  /\ UNCHANGED <<videos, current_video_index>>
  /\ UNCHANGED beside_theory

\* lines 626-629 and the rerun: the position the first task is shown at
Started(tasks) ==
  /\ practice_tasks' = Present(tasks)
  /\ task_attempts' = <<>>
  /\ completed_tasks' = <<>>
  /\ current_task_type' = Shown(tasks, "easy", 0).type
  /\ current_task_index' = Shown(tasks, "easy", 0).index

\* show_practice_stage with no 'practice_tasks' in the session: the tasks are
\* generated and stored, attempts and completed tasks start empty
GenerateTasks(data) ==
  /\ current_stage = "practice"
  /\ ~practice_tasks.present
  /\ Started(StoredTasks(data))
  /\ tdata' = TaskCall(data, CurrentTitle)
  /\ UNCHANGED <<current_stage, videos, current_video_index, completed_topics,
                 theory_vars, hints>>
  /\ UNCHANGED <<compare_vars, store_vars, course_vars, adapt_vars, api_vars>>

\* tasks_of_type = practice_tasks.get(current_type, [])
TasksOfType == Get(practice_tasks.value, current_task_type, <<>>)

\* show_current_task shows a task
OnTask ==
  /\ current_stage = "practice"
  /\ practice_tasks.present
  /\ AnyTasks(practice_tasks.value)
  /\ current_task_index < Len(TasksOfType)

\* task_key = f"{current_type}_{current_index}"
TaskKey == <<current_task_type, current_task_index>>

\* if attempts <= max_attempts
AttemptsLeftInclusive(task_key) ==
  Get(task_attempts, task_key, 0) <= max_attempts_per_task

\* if attempts < max_attempts
AttemptsLeft(task_key) == Get(task_attempts, task_key, 0) < max_attempts_per_task

\* compare_answers((user_answer or "").strip().lower(),
\*                 (task.get("answer") or "").strip().lower())
IsCorrect(answer, task) ==
  compare_answers(Str(Lower(Strip(StrOrEmpty(answer)))),
                  Str(Lower(Strip(StrOrEmpty(task.answer))))).value

\* the task key is appended whether it is in the list or not, and after a
\* wrong answer as well
CheckedAppending(is_correct, attempts_made) ==
  /\ completed_tasks' = Append(completed_tasks, TaskKey)
  /\ UNCHANGED hints

\* lines 717-759 of check_answer, with attempts already raised
Checked(is_correct, attempts_made) ==
  IF is_correct
  THEN /\ completed_tasks' =
            IF \E i \in 1..Len(completed_tasks) : completed_tasks[i] = TaskKey
            THEN completed_tasks ELSE Append(completed_tasks, TaskKey)
       /\ UNCHANGED hints
  ELSE IF attempts_made < max_attempts_per_task
  THEN /\ Get(hints, TaskKey, 0) < MaxHints
       /\ hints' = Put(hints, TaskKey, Get(hints, TaskKey, 0) + 1)
       /\ UNCHANGED completed_tasks
  ELSE UNCHANGED <<completed_tasks, hints>>

\* show_current_task: the check button with an answer that is not blank;
\* check_answer(tutor, session, current_task, user_answer, task_key)
CheckAnswer(answer) ==
  /\ OnTask
  /\ AttemptsLeft(TaskKey)
  /\ Strip(StrOrEmpty(answer)) # <<>>
  /\ task_attempts' = Put(task_attempts, TaskKey, Get(task_attempts, TaskKey, 0) + 1)
  /\ Checked(IsCorrect(answer, TasksOfType[current_task_index + 1]),
             Get(task_attempts, TaskKey, 0) + 1)
  /\ UNCHANGED <<current_stage, videos, current_video_index, completed_topics,
                 theory_vars, practice_tasks, current_task_type, current_task_index,
                 tdata>>
  /\ UNCHANGED <<compare_vars, store_vars, course_vars, adapt_vars, api_vars>>

\* the rerun after current_task_index += 1
Moved(position) ==
  /\ current_task_type' = position.type
  /\ current_task_index' = position.index
  /\ completed_topics' = SavedOnRender(Completed(practice_tasks.value, position))

\* the buttons that skip the task or go to the next one (lines 692-694,
\* 699-700, 727-728, 758-759); move_to_next_task()
move_to_next_task ==
  /\ OnTask
  /\ Moved(Shown(practice_tasks.value, current_task_type, current_task_index + 1))
  /\ UNCHANGED <<current_stage, videos, current_video_index, theory_vars,
                 practice_tasks, task_attempts, completed_tasks, tdata, hints>>
  /\ UNCHANGED <<compare_vars, store_vars, course_vars, adapt_vars, api_vars>>

\* for k in ["practice_tasks", ...]: del st.session_state[k]
PracticeKeysDeleted ==
  /\ practice_tasks' = Absent
  /\ task_attempts' = <<>>
  /\ completed_tasks' = <<>>
  /\ current_task_type' = "easy"
  /\ current_task_index' = 0
  /\ tdata' = NoData

\* show_practice_completion: the button to the next topic, when there is a
\* next video; next_video(), set_stage('video'), the practice keys deleted
StudyNewTopic ==
  /\ current_stage = "practice"
  /\ CompletionShown(practice_tasks, current_task_type, current_task_index)
  /\ current_video_index < Len(videos) - 1
  /\ completed_topics' = SavedOnRender(TRUE)
  /\ current_video_index' = current_video_index + 1
  /\ current_stage' = "video"
  /\ PracticeKeysDeleted
  /\ UNCHANGED <<videos, theory_vars, hints>>
  /\ UNCHANGED <<compare_vars, store_vars, course_vars, adapt_vars, api_vars>>

\* show_practice_completion: the button back to the course selection;
\* set_stage('selection'), the practice keys deleted
ReturnToSelection ==
  /\ current_stage = "practice"
  /\ CompletionShown(practice_tasks, current_task_type, current_task_index)
  /\ completed_topics' = SavedOnRender(TRUE)
  /\ current_stage' = "selection"
  /\ PracticeKeysDeleted
  /\ UNCHANGED <<videos, current_video_index, theory_vars, hints>>
  /\ UNCHANGED <<compare_vars, store_vars, course_vars, adapt_vars, api_vars>>

\* main: another subject or grade is selected in the sidebar;
\* set_course(subject, grade), and the stage is shown again (the completion
\* screen saves the practice score under the key it builds now)
SelectCourse(course) ==
  /\ course # selected_course
  /\ selected_course' = course
  /\ completed_topics' =
       IF current_stage = "practice"
            /\ CompletionShown(practice_tasks, current_task_type, current_task_index)
       THEN completed_topics \cup {TopicKeyOf(course, CurrentTitle)}
       ELSE completed_topics
  /\ UNCHANGED <<current_stage, videos, current_video_index, theory_vars,
                 practice_vars, videos_course>>
  /\ UNCHANGED <<compare_vars, store_vars, adapt_vars, api_vars>>

\* The responses of the practice sessions: no dict at all, and dicts that
\* hold the three tiers with a task each, with two easy tasks and no medium
\* one, and with no task at all.
PracticeOutcomes ==
  {TData("other", "-", <<>>),
   TData("dict", "-", TaskMap([easy |-> 1, medium |-> 1, hard |-> 1])),
   TData("dict", "-", TaskMap([easy |-> 2, medium |-> 0, hard |-> 1])),
   TData("dict", "-", TaskMap([easy |-> 0, medium |-> 0, hard |-> 0]))}

\* The session through the practice stage: the course has the two videos
\* t1 and t2, the quiz is the fallback set (generation disabled) and the
\* option selected is the first one.
PracticeNext ==
  \/ start_course(<<"t1", "t2">>)
  \/ ReadyForTest
  \/ GenerateQuestions(call_deepseek_api(FALSE, <<>>))
  \/ \E i \in 0..(MaxAnswered - 1) : SelectAnswer(i, 1)
  \/ StartPractice
  \/ \E data \in PracticeOutcomes : GenerateTasks(data)
  \/ \E answer \in TypedAnswers : CheckAnswer(answer)
  \/ move_to_next_task
  \/ StudyNewTopic
  \/ ReturnToSelection

PracticeSpec == Init /\ [][PracticeNext]_vars

\* The session up to the generation of the tasks, with every response.
TaskGenerationNext ==
  \/ start_course(<<"t1", "t2">>)
  \/ ReadyForTest
  \/ GenerateQuestions(call_deepseek_api(FALSE, <<>>))
  \/ \E i \in 0..(MaxAnswered - 1) : SelectAnswer(i, 1)
  \/ StartPractice
  \/ \E data \in TaskOutcomes : GenerateTasks(data)

TaskGenerationSpec == Init /\ [][TaskGenerationNext]_vars

\* What the learner does on the task shown: a check, or the button that
\* skips the task or goes to the next one.
LearnerActs ==
  \/ move_to_next_task
  \/ \E answer \in TypedAnswers : CheckAnswer(answer)

\* The practice sessions of a learner who starts a course from the
\* selection stage only and, once in the practice stage, uses the buttons
\* of the stage.
TerminationNext ==
  \/ current_stage = "selection" /\ start_course(<<"t1", "t2">>)
  \/ ReadyForTest
  \/ GenerateQuestions(call_deepseek_api(FALSE, <<>>))
  \/ \E i \in 0..(MaxAnswered - 1) : SelectAnswer(i, 1)
  \/ StartPractice
  \/ \E data \in PracticeOutcomes : GenerateTasks(data)
  \/ \E answer \in TypedAnswers : CheckAnswer(answer)
  \/ move_to_next_task
  \/ StudyNewTopic
  \/ ReturnToSelection

\* The learner keeps acting on the task shown: a check or an advance that
\* stays possible is taken at some time.
TerminationSpec ==
  Init /\ [][TerminationNext]_vars /\ WF_vars(LearnerActs)

\* One call of _call_deepseek_api(prompt), with DEEPSEEK_ENABLED as given.
CallApi(enabled) ==
  /\ ~api_result.called
  /\ api_result' =
       [called |-> TRUE, enabled |-> enabled,
        ret |-> call_deepseek_api(enabled, api_outcomes)]
  /\ UNCHANGED api_outcomes
  /\ UNCHANGED <<compare_vars, current_stage, videos, current_video_index,
                 completed_topics, theory_vars, practice_vars, store_vars,
                 course_vars, adapt_vars>>

\* The requests of the call meet any outcomes.
ApiInit ==
  /\ user_answer = None
  /\ correct_answer = None
  /\ result = NoResult
  /\ pc = "idle"
  /\ current_stage = "selection"
  /\ videos = <<>>
  /\ current_video_index = 0
  /\ completed_topics = {}
  /\ theory_questions = Absent
  /\ theory_answers = Absent
  /\ generation = NoGeneration
  /\ NoPractice
  /\ hints = <<>>
  /\ selected_course = FirstCourse
  /\ videos_course = NoCourse
  /\ NoStore
  /\ NoAdaptation
  /\ api_outcomes \in RequestRuns
  /\ api_result = NotCalled

ApiNext == \E enabled \in BOOLEAN : CallApi(enabled)

ApiSpec == ApiInit /\ [][ApiNext]_vars

\* The session with the course selection of the sidebar: the tasks are the
\* fallback set.
CourseNext ==
  \/ \E course \in Courses : SelectCourse(course)
  \/ start_course(<<"t1", "t2">>)
  \/ ReadyForTest
  \/ GenerateQuestions(call_deepseek_api(FALSE, <<>>))
  \/ \E i \in 0..(MaxAnswered - 1) : SelectAnswer(i, 1)
  \/ StartPractice
  \/ GenerateTasks(TData("other", "-", <<>>))
  \/ move_to_next_task
  \/ StudyNewTopic
  \/ ReturnToSelection

CourseSpec == Init /\ [][CourseNext]_vars

\* The session with every step that changes the stage, the videos or the
\* index of the current video; the tasks are the fallback set.
NavigationNext ==
  \/ \E vs \in Playlists : start_course(vs)
  \/ ReadyForTest
  \/ prev_video
  \/ next_video
  \/ GenerateQuestions(call_deepseek_api(FALSE, <<>>))
  \/ \E i \in 0..(MaxAnswered - 1) : SelectAnswer(i, 1)
  \/ ReturnToVideo
  \/ StartPractice
  \/ GenerateTasks(TData("other", "-", <<>>))
  \/ move_to_next_task
  \/ StudyNewTopic
  \/ ReturnToSelection

NavigationSpec == Init /\ [][NavigationNext]_vars

(***************************************************************************)
(* The progress store (src/utils.py): the local file and the cloud row,    *)
(* shared by the browser sessions, and the progress each session holds in  *)
(* its st.session_state.  A payload is a dict with the list                *)
(* completed_topics and the dict scores, from topic key to the dict of the *)
(* fields theory_score, practice_completed and practice_total (the field   *)
(* date is left out).                                                      *)
(***************************************************************************)
TopicKeys == {"k1", "k2"}

\* The theory scores and the practice results (completed, total) saved.
TheoryScores == {100}

PracticeResults == {<<1, 1>>}

Payload(completed, scores) == [completed_topics |-> completed, scores |-> scores]

\* {"completed_topics": [], "scores": {}}
DefaultProgress == Payload(<<>>, <<>>)

\* {}: the payload of a cloud row that holds none
EmptyDict == <<>>

\* What a local file holds that json.load cannot read.
Unreadable == [unreadable |-> TRUE]

\* _cloud_fetch(): None after an exception or without a row, else the
\* payload of the row ({} for a row without payload)
cloud_fetch(fetch_ok) == IF fetch_ok /\ cloud.present THEN cloud ELSE Absent

\* _local_load(): the content of the file, the default without a file and
\* with a file that cannot be read
local_load ==
  IF local_file.present /\ local_file.value # Unreadable THEN local_file.value
  ELSE DefaultProgress

\* the cloud record is used whenever a row was fetched
UsableWhenFetched(remote) == remote.present

\* "isinstance(remote, dict) and remote" of load_progress
Usable(remote) == remote.present /\ remote.value # EmptyDict

\* load_progress()
load_progress(fetch_ok) ==
  IF cloud_on /\ Usable(cloud_fetch(fetch_ok)) THEN cloud_fetch(fetch_ok).value
  ELSE local_load

\* SessionManager.__init__ in a browser session without 'progress':
\* st.session_state.progress = self.load_progress()
OpenSession(s, fetch_ok) ==
  /\ ~progress[s].present
  /\ progress' = [progress EXCEPT ![s] = Present(load_progress(fetch_ok))]
  /\ UNCHANGED <<local_file, cloud, cloud_on, saved>>
  /\ UNCHANGED <<compare_vars, current_stage, videos, current_video_index,
                 completed_topics, theory_vars, practice_vars, course_vars,
                 adapt_vars, api_vars>>

\* save_progress() with the payload of the session: _local_save, and
\* _cloud_upsert with the cloud on; saved follows the local file
save_progress(s, topic_key, payload, local_ok, upsert_ok) ==
  /\ progress' = [progress EXCEPT ![s] = Present(payload)]
  /\ local_file' = IF local_ok THEN Present(payload) ELSE local_file
  /\ cloud' = IF cloud_on /\ upsert_ok THEN Present(payload) ELSE cloud
  /\ saved' = IF local_ok THEN Put(saved, topic_key, payload.scores[topic_key]) ELSE saved
  /\ UNCHANGED cloud_on
  /\ UNCHANGED <<compare_vars, current_stage, videos, current_video_index,
                 completed_topics, theory_vars, practice_vars, course_vars,
                 adapt_vars, api_vars>>

\* progress["scores"][topic_key][field] = value, the dicts created when
\* they are missing
WithScore(payload, topic_key, field, value) ==
  Payload(payload.completed_topics,
          Put(payload.scores, topic_key,
              Put(Get(payload.scores, topic_key, <<>>), field, value)))

\* if topic_key not in completed_topics: completed_topics.append(topic_key)
WithCompleted(payload, topic_key) ==
  IF \E i \in 1..Len(payload.completed_topics) : payload.completed_topics[i] = topic_key
  THEN payload
  ELSE Payload(Append(payload.completed_topics, topic_key), payload.scores)

\* save_theory_score(topic_key, score) in the session s
save_theory_score(s, topic_key, score, local_ok, upsert_ok) ==
  /\ progress[s].present
  /\ save_progress(s, topic_key,
                   WithScore(progress[s].value, topic_key, "theory_score", score),
                   local_ok, upsert_ok)

\* save_practice_score(topic_key, completed, total) in the session s
save_practice_score(s, topic_key, completed, total, local_ok, upsert_ok) ==
  /\ progress[s].present
  /\ save_progress(s, topic_key,
                   WithScore(WithScore(WithCompleted(progress[s].value, topic_key),
                                       topic_key, "practice_completed", completed),
                             topic_key, "practice_total", total),
                   local_ok, upsert_ok)

StoreInit ==
  /\ user_answer = None
  /\ correct_answer = None
  /\ result = NoResult
  /\ pc = "idle"
  /\ SessionInit({})
  /\ local_file = Absent
  /\ cloud = Absent
  /\ cloud_on \in BOOLEAN
  /\ progress = [s \in Sessions |-> Absent]
  /\ saved = <<>>

StoreNext ==
  \/ \E s \in Sessions, fetch_ok \in BOOLEAN : OpenSession(s, fetch_ok)
  \/ \E s \in Sessions, k \in TopicKeys, score \in TheoryScores,
        local_ok \in BOOLEAN, upsert_ok \in BOOLEAN :
       save_theory_score(s, k, score, local_ok, upsert_ok)
  \/ \E s \in Sessions, k \in TopicKeys, r \in PracticeResults,
        local_ok \in BOOLEAN, upsert_ok \in BOOLEAN :
       save_practice_score(s, k, r[1], r[2], local_ok, upsert_ok)

StoreSpec == StoreInit /\ [][StoreNext]_vars

\* The sessions of one user over a local file that every save reaches; the
\* cloud calls end either way.
RoundTripNext ==
  \/ \E s \in Sessions, fetch_ok \in BOOLEAN : OpenSession(s, fetch_ok)
  \/ \E s \in Sessions, k \in TopicKeys, score \in TheoryScores, upsert_ok \in BOOLEAN :
       save_theory_score(s, k, score, TRUE, upsert_ok)
  \/ \E s \in Sessions, k \in TopicKeys, r \in PracticeResults, upsert_ok \in BOOLEAN :
       save_practice_score(s, k, r[1], r[2], TRUE, upsert_ok)

RoundTripSpec == StoreInit /\ [][RoundTripNext]_vars

\* The payloads found in the store when the sessions start.
StoredPayloads ==
  {DefaultProgress,
   WithScore(DefaultProgress, "k1", "theory_score", 100),
   WithScore(DefaultProgress, "k2", "theory_score", 100)}

\* The store as the first session finds it: the file is missing, unreadable
\* or holds a payload; the cloud has no row, a row without payload or a row
\* with a payload.
LoadInit ==
  /\ user_answer = None
  /\ correct_answer = None
  /\ result = NoResult
  /\ pc = "idle"
  /\ SessionInit({})
  /\ local_file \in {Absent, Present(Unreadable)} \cup {Present(p) : p \in StoredPayloads}
  /\ cloud \in {Absent, Present(EmptyDict)} \cup {Present(p) : p \in StoredPayloads}
  /\ cloud_on \in BOOLEAN
  /\ progress = [s \in Sessions |-> Absent]
  /\ saved = <<>>

LoadNext == \E s \in Sessions, fetch_ok \in BOOLEAN : OpenSession(s, fetch_ok)

LoadSpec == LoadInit /\ [][LoadNext]_vars

(***************************************************************************)
(* The difficulty of a generation request, derived from the stored theory  *)
(* score of the current topic: get_adaptive_difficulty for the questions   *)
(* (src/utils.py), perf_bucket and performance_adjustment for the tasks    *)
(* (src/app.py).  A score is a percentage, kept as an integer.             *)
(***************************************************************************)
Scores == 0..100

\* get_adaptive_difficulty() with the videos vs and the stored score
get_adaptive_difficulty(vs, score) ==
  IF vs = <<>> THEN "medium"
  ELSE IF ~score.present THEN "medium"
  ELSE IF score.value < 60 THEN "easy"
  ELSE IF score.value > 85 THEN "hard"
  ELSE "medium"

\* perf_bucket = theory_score if theory_score is not None else -1
perf_bucket(score) == IF score.present THEN score ELSE Present(-1)

\* performance_adjustment of generate_practice_tasks_enhanced: the sentence
\* for simpler tasks (easier), the one for harder tasks (harder), or ""
\* (none)
PerformanceAdjustment(user_performance) ==
  IF ~user_performance.present THEN "none"
  ELSE IF user_performance.value < 60 THEN "easier"
  ELSE IF user_performance.value > 85 THEN "harder"
  ELSE "none"

\* show_theory_test: difficulty = session.get_adaptive_difficulty()
AdaptQuestions(vs) ==
  /\ difficulty = Unset
  /\ difficulty' =
       [with_videos |-> vs # <<>>, level |-> get_adaptive_difficulty(vs, theory_score)]
  /\ UNCHANGED <<theory_score, performance_adjustment>>
  /\ UNCHANGED <<compare_vars, current_stage, videos, current_video_index,
                 completed_topics, theory_vars, practice_vars, store_vars,
                 course_vars, api_vars>>

\* show_practice_stage: cached_generate_tasks(..., perf_bucket, ...), that is
\* generate_practice_tasks_enhanced(topic, subject, grade, perf_bucket)
AdaptTasks ==
  /\ performance_adjustment = "unset"
  /\ performance_adjustment' = PerformanceAdjustment(perf_bucket(theory_score))
  /\ UNCHANGED <<theory_score, difficulty>>
  /\ UNCHANGED <<compare_vars, current_stage, videos, current_video_index,
                 completed_topics, theory_vars, practice_vars, store_vars,
                 course_vars, api_vars>>

\* The stored score is any percentage, or there is none.
AdaptInit ==
  /\ user_answer = None
  /\ correct_answer = None
  /\ result = NoResult
  /\ pc = "idle"
  /\ current_stage = "selection"
  /\ videos = <<>>
  /\ current_video_index = 0
  /\ completed_topics = {}
  /\ theory_questions = Absent
  /\ theory_answers = Absent
  /\ generation = NoGeneration
  /\ NoPractice
  /\ hints = <<>>
  /\ selected_course = FirstCourse
  /\ videos_course = NoCourse
  /\ NoStore
  /\ theory_score \in {NoScore} \cup {Present(score) : score \in Scores}
  /\ difficulty = Unset
  /\ performance_adjustment = "unset"
  /\ NoApiCall

AdaptNext ==
  \/ \E vs \in {<<>>, <<"t1">>} : AdaptQuestions(vs)
  \/ AdaptTasks

AdaptSpec == AdaptInit /\ [][AdaptNext]_vars

(***************************************************************************)
(* The texts of the call in the state, as compare_answers derives them.    *)
(***************************************************************************)
\* user_answer and correct_answer after lines 20-32
UserText == Prepared(user_answer)

CorrectText == Prepared(correct_answer)

\* user_norm and correct_norm
UserNorm == normalize_answer(UserText)

CorrectNorm == normalize_answer(CorrectText)

Called == pc = "done"

(***************************************************************************)
(* C1                                                                      *)
(***************************************************************************)
\* C1: compare_answers returns a boolean and never raises, for every pair of
\* inputs (None, empty strings, any text, text with a '/' that is no number).
C1_NeverRaises == Called => (~result.raised /\ result.value \in BOOLEAN)

\* A call with a '/' in an answer that eval() cannot evaluate has returned.
C1_Witness ==
  /\ Called
  /\ IsNumeric(UserNorm, CorrectNorm)
  /\ Eval(UserNorm).st # "ok"
  /\ result.shape = "plain"
  /\ ~result.raised

(***************************************************************************)
(* C2                                                                      *)
(***************************************************************************)
\* C2: an empty user answer (empty, whitespace only, or None) never matches,
\* whatever the correct answer is, an empty or missing one included.
C2_EmptyUserNeverMatches ==
  (Called /\ Strip(StrOrEmpty(user_answer)) = <<>>) => result.value = FALSE

(***************************************************************************)
(* C3                                                                      *)
(***************************************************************************)
\* The shape that decides a pair when the shapes are tried in the order
\* letter choice, inequality operator present, bracket present, comma
\* present, slash present, plain, "present" meaning in either answer.
ShapeInFixedOrder ==
  IF IsLetterChoice(UserNorm, CorrectNorm) THEN {"letter"}
  ELSE IF HasInequalityOp(UserNorm) \/ HasInequalityOp(CorrectNorm) THEN {"inequality"}
  ELSE IF HasBracket(UserText) \/ HasBracket(CorrectText) THEN {"interval"}
  ELSE IF Contains(UserNorm, <<",">>) \/ Contains(CorrectNorm, <<",">>) THEN {"set"}
  ELSE IF Contains(UserNorm, <<"/">>) \/ Contains(CorrectNorm, <<"/">>)
       THEN {"numeric", "plain"}
  ELSE {"plain"}

\* C3: every pair is decided by the first shape of the fixed order that is
\* present; a pair with an inequality operator and a comma (on either side)
\* is decided by the clause comparison, never by the set comparison.
C3_FixedOrder == Called => result.shape \in ShapeInFixedOrder

(***************************************************************************)
(* C4                                                                      *)
(***************************************************************************)
\* How often x occurs in the list l.
Count(l, x) == Cardinality({i \in 1..Len(l) : l[i] = x})

\* The two lists are permutations of each other.
IsPermutation(l1, l2) ==
  /\ Len(l1) = Len(l2)
  /\ \A i \in 1..Len(l1) : Count(l1, l1[i]) = Count(l2, l1[i])

\* C4: two inequality answers match exactly when their clause lists are
\* permutations of each other (equal as multisets), whatever the order and
\* the separators of the clauses.
C4_ClauseOrderIndependent ==
  (Called /\ HasInequalityOp(UserNorm) /\ HasInequalityOp(CorrectNorm))
    => (result.value = IsPermutation(Clauses(UserNorm), Clauses(CorrectNorm)))

\* Two answers of two clauses or more, written in a different order, matched.
C4_Witness ==
  /\ Called
  /\ HasInequalityOp(UserNorm) /\ HasInequalityOp(CorrectNorm)
  /\ Len(Clauses(UserNorm)) >= 2
  /\ Clauses(UserNorm) # Clauses(CorrectNorm)
  /\ result.value = TRUE

(***************************************************************************)
(* C5                                                                      *)
(***************************************************************************)
\* An answer lower-cased with all its whitespace removed, brackets kept.
WithoutWhitespace(x) == RemoveChars(Lower(StrOrEmpty(x)), Whitespace)

\* C5: with no inequality operator in either answer and a bracket in one of
\* them, the answers match exactly when they are equal after removing all
\* whitespace, the brackets kept.
C5_BracketExact ==
  (/\ Called
   /\ ~HasInequalityOp(UserNorm) /\ ~HasInequalityOp(CorrectNorm)
   /\ (HasBracket(UserText) \/ HasBracket(CorrectText)))
    => (result.value = (WithoutWhitespace(user_answer) = WithoutWhitespace(correct_answer)))

(***************************************************************************)
(* C6                                                                      *)
(***************************************************************************)
\* The set of the non-empty comma-separated tokens of s.
NonEmptyTokens(s) == TokenSet(s) \ {<<>>}

\* C6: with a comma in one of the answers and no operator or bracket in
\* either, the answers match exactly when their sets of non-empty tokens are
\* equal: order, repetitions and empty tokens do not count.
C6_TokenSets ==
  (/\ Called
   /\ ~HasInequalityOp(UserNorm) /\ ~HasInequalityOp(CorrectNorm)
   /\ ~HasBracket(UserText) /\ ~HasBracket(CorrectText)
   /\ (Contains(UserNorm, <<",">>) \/ Contains(CorrectNorm, <<",">>)))
    => (result.value = (NonEmptyTokens(UserNorm) = NonEmptyTokens(CorrectNorm)))

(***************************************************************************)
(* C7                                                                      *)
(***************************************************************************)
ChoiceLetters == {"a", "b", "c", "d"}

\* An answer trimmed and lower-cased.
Trimmed(x) == Lower(Strip(StrOrEmpty(x)))

\* Trimmed, and a trailing ')' or '.' removed.
Undelimited(x) ==
  LET t == Trimmed(x)
  IN IF t # <<>> /\ t[Len(t)] \in {")", "."} THEN SubSeq(t, 1, Len(t) - 1) ELSE t

IsSingleLetter(x) == Len(Undelimited(x)) = 1 /\ Undelimited(x)[1] \in ChoiceLetters

StartsWithLetter(x) == Trimmed(x) # <<>> /\ Trimmed(x)[1] \in ChoiceLetters

\* C7: when one side is a single letter a-d (after trimming and dropping a
\* trailing ')' or '.') and the other side starts with a letter a-d, only
\* the first characters are compared, in either argument position.
C7_LetterChoice ==
  (/\ Called
   /\ \/ IsSingleLetter(user_answer) /\ StartsWithLetter(correct_answer)
      \/ IsSingleLetter(correct_answer) /\ StartsWithLetter(user_answer))
    => (result.value = (Trimmed(user_answer)[1] = Trimmed(correct_answer)[1]))

(***************************************************************************)
(* C8                                                                      *)
(***************************************************************************)
\* Every operator symbol of s written as its phrase, the two-character
\* symbols first.
Textualize(s) ==
  Replace(Replace(Replace(Replace(s, SymGE, PhraseGE), SymLE, PhraseLE),
                  SymGT, PhraseGT), SymLT, PhraseLT)

TextualizeAnswer(x) == IF x.none THEN x ELSE Str(Textualize(x.s))

\* The words that follow the first word in the two long phrases.
OrEqualTail == SubSeq(PhraseGE, Len(PhraseGT) + 1, Len(PhraseGE))

\* A symbol directly followed by the tail of a long phrase.
HalfReplaced(s) ==
  \/ Contains(s, SymGT \o OrEqualTail)
  \/ Contains(s, SymLT \o OrEqualTail)

\* replace_textual_operators never leaves a long phrase half replaced.
NeverHalfReplaced(x) ==
  ~HalfReplaced(Trimmed(x)) => ~HalfReplaced(replace_textual_operators(Trimmed(x)))

\* Writing the symbols of one answer as phrases leaves the result as it is.
SameAfterTextualizingUser ==
  compare_answers(TextualizeAnswer(user_answer), correct_answer).value = result.value

SameAfterTextualizingCorrect ==
  compare_answers(user_answer, TextualizeAnswer(correct_answer)).value = result.value

\* C8 as stated: replacing the operator symbols of either answer by their
\* phrases never changes the result, and a long phrase is never half
\* replaced.
C8_AsStated ==
  Called => /\ SameAfterTextualizingUser
            /\ SameAfterTextualizingCorrect
            /\ NeverHalfReplaced(user_answer)
            /\ NeverHalfReplaced(correct_answer)

\* C8: replacing the operator symbols of an answer by their phrases never
\* changes the result, provided no symbol of that answer is directly
\* followed by the words " or equal" of a long phrase (such a symbol and
\* the words together read as the long phrase once the symbol is written
\* out); and replace_textual_operators never turns a long phrase into a
\* short symbol followed by those words.
C8_TextualOperators ==
  Called => /\ ~HalfReplaced(Trimmed(user_answer)) => SameAfterTextualizingUser
            /\ ~HalfReplaced(Trimmed(correct_answer)) => SameAfterTextualizingCorrect
            /\ NeverHalfReplaced(user_answer)
            /\ NeverHalfReplaced(correct_answer)

\* A symbol on one side matched the long phrase on the other side.
C8_Witness ==
  /\ Called
  /\ Contains(StrOrEmpty(user_answer), SymGE)
  /\ Contains(StrOrEmpty(correct_answer), PhraseGE)
  /\ Textualize(StrOrEmpty(user_answer)) # StrOrEmpty(user_answer)
  /\ result.value = TRUE

(***************************************************************************)
(* C9                                                                      *)
(***************************************************************************)
Floor(v) == v.n \div v.d

\* The common denominator of two values, when the values brought to it
\* stay below MaxInt.
CommonDenominatorFits(a, b) ==
  LET g == Gcd(a.d, b.d)
      MaxInt == 2147483647
  IN /\ a.d <= MaxInt \div (b.d \div g)
     /\ Abs(a.n) <= MaxInt \div (b.d \div g)
     /\ Abs(b.n) <= MaxInt \div (a.d \div g)

\* |a - b| < 10^-6, computed over the common denominator l:
\* |a.n*(l/a.d) - b.n*(l/b.d)| * 10^6 < l.
WithinTolerance(a, b) ==
  LET g == Gcd(a.d, b.d)
      l == a.d * (b.d \div g)
      diff == Abs(a.n * (b.d \div g) - b.n * (a.d \div g))
  IN diff <= (l - 1) \div Pow(10, ToleranceDigits)

WellFormed(question) ==
  /\ question.dict
  /\ question.options = 4
  /\ question.correct_answer \in {"A", "B", "C", "D"}

FailureResult ==
  /\ theory_questions.value = FALLBACK_QUESTIONS
  /\ generation.message = "offline_set"

\* C12: a generation whose call returned the content of a response is told
\* from a failed call: the value returned is no error marker, and the
\* stored questions and the message are not those of a failed call.
C12_FailureDistinguishable ==
  (theory_questions.present /\ generation.answered)
    => (~generation.error /\ ~FailureResult)

(***************************************************************************)
(* C20                                                                     *)
(***************************************************************************)
\* C20: outside the theory test no questions and no answers are stored, and
\* the questions stored in the theory test were generated for the current
\* video.
C20_DiscardedOnLeaving ==
  /\ current_stage # "theory_test"
       => (~theory_questions.present /\ ~theory_answers.present)
  /\ (current_stage = "theory_test" /\ theory_questions.present)
       => generation.title = videos[current_video_index + 1]

(***************************************************************************)
(* C13                                                                     *)
(***************************************************************************)
\* The response of the generation held a task map with one tier at least.
PayloadReturned ==
  /\ \/ tdata.kind = "dict"
     \/ tdata.kind = "content" /\ tdata.text = "object"
  /\ DOMAIN tdata.tasks # {}

\* C13: for a response that holds a task map with any of the tiers, the
\* stored map has the three tiers, each tier holds the tasks the response
\* holds for it, in order, and a tier the response lacks is empty.
C13_TaskShape ==
  (practice_tasks.present /\ PayloadReturned)
    => /\ AllTiers(practice_tasks.value)
       /\ \A t \in TierNames : practice_tasks.value[t] = Get(tdata.tasks, t, <<>>)

(***************************************************************************)
(* C14                                                                     *)
(***************************************************************************)
AttemptsBounded ==
  \A k \in DOMAIN task_attempts : task_attempts[k] <= max_attempts_per_task

\* A step changes the counter of a task only by a check of the task shown,
\* from below the maximum and by one, or by starting over with no counters.
AttemptsStep ==
  \A k \in DOMAIN task_attempts \cup DOMAIN task_attempts' :
    Get(task_attempts', k, 0) # Get(task_attempts, k, 0)
      => \/ task_attempts' = <<>>
         \/ /\ OnTask
            /\ k = TaskKey
            /\ Get(task_attempts, k, 0) < max_attempts_per_task
            /\ task_attempts'[k] = Get(task_attempts, k, 0) + 1

\* C14: the attempt counter of a task never exceeds max_attempts_per_task,
\* and it changes only by a check made below the maximum, which raises it
\* by exactly one; at the maximum no check of the task is possible.
C14_BoundedRetries == []AttemptsBounded /\ [][AttemptsStep]_vars

\* The task shown has used all its attempts.
C14_Witness ==
  /\ OnTask
  /\ Get(task_attempts, TaskKey, 0) = max_attempts_per_task

(***************************************************************************)
(* C19                                                                     *)
(***************************************************************************)
\* C19: in a practice session the hints of a task are no more than the
\* checks of the task in this session (which bound its incorrect checks); a
\* task with no attempt has no hint.
C19_HintsOfThisSession ==
  practice_tasks.present
    => \A k \in DOMAIN hints : hints[k] <= Get(task_attempts, k, 0)

(***************************************************************************)
(* C15                                                                     *)
(***************************************************************************)
\* C15: the record the store holds for a topic key is the record of the
\* latest save to that key, whichever session saved and whatever was saved
\* to other keys since.
C15_LastWriteWinsPerKey ==
  \A k \in DOMAIN saved :
    local_file.present /\ Get(local_file.value.scores, k, <<>>) = saved[k]

(* C16                                                                     *)
(***************************************************************************)
\* C16: whenever one of the answers holds an inequality operator (the
\* correct answer alone included) and the correct answer is no letter
\* choice, the result is the equality of the two sorted clause lists.
C16_EitherSideOperator ==
  (/\ Called
   /\ ~IsLetterChoice(UserNorm, CorrectNorm)
   /\ (HasInequalityOp(UserNorm) \/ HasInequalityOp(CorrectNorm)))
    => (result.value = (ClauseList(UserNorm) = ClauseList(CorrectNorm)))

(***************************************************************************)
(* C17                                                                     *)
(***************************************************************************)
\* The pair reaches the fraction step: no letter choice, no operator, no
\* bracket and no comma, and a slash in one of the answers.
FractionStep ==
  /\ ~IsLetterChoice(UserNorm, CorrectNorm)
  /\ ~HasInequalityOp(UserNorm) /\ ~HasInequalityOp(CorrectNorm)
  /\ ~HasBracket(UserText) /\ ~HasBracket(CorrectText)
  /\ ~Contains(UserNorm, <<",">>) /\ ~Contains(CorrectNorm, <<",">>)
  /\ (Contains(UserNorm, <<"/">>) \/ Contains(CorrectNorm, <<"/">>))

EvaluationFails == Eval(UserNorm).st # "ok" \/ Eval(CorrectNorm).st # "ok"

Canonical(x) ==
  IF x.none THEN x
  ELSE Str(Replace(Replace(RemoveChars(x.s, Whitespace),
                           <<"i", "n", "f", "i", "n", "i", "t", "y">>, <<"i", "n", "f">>),
                   <<"U+2212">>, <<"-">>))

\* C18: writing either answer without whitespace, with "inf" for "infinity"
\* and with "-" for the Unicode minus sign never changes the result.
C18_NormalizationInvariant ==
  Called => /\ compare_answers(Canonical(user_answer), correct_answer).value = result.value
            /\ compare_answers(user_answer, Canonical(correct_answer)).value = result.value


(***************************************************************************)
(* C21                                                                     *)
(***************************************************************************)
\* The place of a tier in task_types, from 1.
TierRank(type) == CHOOSE i \in 1..Len(task_types) : task_types[i] = type

\* With tasks stored, the position is on a task of its tier, or it is in
\* the last tier just past its last task (the completion screen).
PositionSettled ==
  (practice_tasks.present /\ AnyTasks(practice_tasks.value)) =>
    \/ current_task_index < Len(TasksOfType)
    \/ /\ current_task_type = "hard"
       /\ current_task_index = Len(TasksOfType)

\* A step that keeps the task map and changes the position: inside a tier
\* the index grows by one; a tier is left only from its last task, for a
\* later tier at index 0, and every tier in between is empty.
PositionStep ==
  (/\ practice_tasks.present
   /\ practice_tasks' = practice_tasks
   /\ <<current_task_type, current_task_index>>' # <<current_task_type, current_task_index>>) =>
    IF current_task_type' = current_task_type
    THEN current_task_index' = current_task_index + 1
    ELSE /\ TierRank(current_task_type') > TierRank(current_task_type)
         /\ current_task_index' = 0
         /\ current_task_index + 1 = Len(TasksOfType)
         /\ \A t \in TierNames :
              (TierRank(current_task_type) < TierRank(t) /\ TierRank(t) < TierRank(current_task_type'))
                => Len(Get(practice_tasks.value, t, <<>>)) = 0

\* C21: the tasks are consumed tier by tier: the tier only moves forward
\* through easy, medium, hard, the index grows by one per advance and is 0
\* after a tier change, a tier without tasks is never the tier of a shown
\* task, and the completion screen is shown only past the last hard task.
C21_TierByTier == []PositionSettled /\ [][PositionStep]_vars

\* A task of the hard tier is shown after the last easy task was left and
\* the empty medium tier was passed over.
C21_Witness ==
  /\ current_stage = "practice"
  /\ practice_tasks.present
  /\ Len(Get(practice_tasks.value, "medium", <<>>)) = 0
  /\ current_task_type = "hard"
  /\ current_task_index = 0
  /\ OnTask


(***************************************************************************)
(* C22                                                                     *)
(***************************************************************************)
\* C22: when the completion screen builds the topic key and saves the
\* practice score under it, the subject and grade of the key are those the
\* stored videos were loaded for.
C22_KeyOfLoadedCourse ==
  (/\ current_stage = "practice"
   /\ CompletionShown(practice_tasks, current_task_type, current_task_index)) =>
    /\ current_topic_key[1] = videos_course
    /\ \A key \in completed_topics : key[2] = CurrentTitle => key[1] = videos_course


(***************************************************************************)
(* C23                                                                     *)
(***************************************************************************)
\* The setting a stored score stands for: medium without a score and from
\* 60 to 85, easy below 60, hard above 85.
SettingOf(score) ==
  IF ~score.present THEN "medium"
  ELSE IF score.value < 60 THEN "easy"
  ELSE IF score.value > 85 THEN "hard"
  ELSE "medium"

\* The setting an adjustment of the task request stands for.
SettingOfAdjustment(adjustment) ==
  IF adjustment = "easier" THEN "easy"
  ELSE IF adjustment = "harder" THEN "hard"
  ELSE "medium"

\* C23: the difficulty of the question request and the adjustment of the
\* task request both follow the stored theory score of the topic: medium
\* without a score (or without videos) and from 60 to 85, easy below 60,
\* hard above 85.
C23_SameMapping ==
  /\ difficulty.level # "unset" =>
       difficulty.level =
         IF difficulty.with_videos THEN SettingOf(theory_score) ELSE "medium"
  /\ performance_adjustment # "unset" =>
       SettingOfAdjustment(performance_adjustment) = SettingOf(theory_score)


(***************************************************************************)
(* C24                                                                     *)
(***************************************************************************)
\* The content of the local file, the default when it is missing or cannot
\* be read.
LocalOrDefault ==
  IF local_file.present /\ local_file.value # Unreadable THEN local_file.value
  ELSE DefaultProgress

\* What load_progress returns for each outcome of the fetch: the payload of
\* the cloud row when the cloud is on, the fetch succeeds and the row holds
\* a payload that is not empty; the local content or the default otherwise.
LoadResult ==
  \A fetch_ok \in BOOLEAN :
    load_progress(fetch_ok) =
      IF cloud_on /\ fetch_ok /\ cloud.present /\ cloud.value # EmptyDict
      THEN cloud.value
      ELSE LocalOrDefault

\* A session that starts holds the cloud payload or the local content, and
\* the local content whenever the cloud is off or has nothing to give.
LoadStep ==
  \A s \in Sessions :
    (~progress[s].present /\ progress'[s].present) =>
      /\ progress'[s].value \in {LocalOrDefault} \cup
           (IF cloud_on /\ cloud.present /\ cloud.value # EmptyDict
            THEN {cloud.value} ELSE {})
      /\ progress'[s].value # EmptyDict
      /\ progress'[s].value # Unreadable

\* C24: load_progress returns the cloud payload when the cloud is enabled
\* and the fetch yields a record that is not empty, and in every other case
\* the content of the local file, or the default payload when the file is
\* missing or unreadable.
C24_LoadFallsBack == []LoadResult /\ [][LoadStep]_vars

\* A session started with the cloud on and a cloud row without payload
\* beside a local file with a payload: it holds the local payload.
C24_Witness ==
  /\ cloud_on
  /\ cloud = Present(EmptyDict)
  /\ local_file.present
  /\ local_file.value \in StoredPayloads \ {DefaultProgress}
  /\ progress["A"] = local_file


(***************************************************************************)
(* C25                                                                     *)
(***************************************************************************)
\* The stage is one of the four, and outside the selection there are videos
\* and the index points at one of them.
StageAndIndex ==
  /\ current_stage \in {"selection", "video", "theory_test", "practice"}
  /\ current_stage # "selection" =>
       /\ videos # <<>>
       /\ 0 <= current_video_index
       /\ current_video_index < Len(videos)

\* C25: the stage starts as selection and is always selection, video,
\* theory_test or practice; in the stages video, theory_test and practice
\* the video list is not empty and 0 <= current_video_index < len(videos).
C25_StageAndIndex == current_stage = "selection" /\ []StageAndIndex

\* The practice of the last video of a course with more than one video,
\* reached through the button to the next topic.
C25_Witness ==
  /\ current_stage = "practice"
  /\ Len(videos) > 1
  /\ current_video_index = Len(videos) - 1
  /\ practice_tasks.present
  /\ CurrentTitle \notin {key[2] : key \in completed_topics}


(***************************************************************************)
(* C26                                                                     *)
(***************************************************************************)
\* The request of attempt i (from 1) of the call failed in a way that is
\* retried.
Failed(i) == api_outcomes[i].kind \in {"timeout", "http_error", "exception"}

\* What the call returned, for what its requests met: nothing is sent when
\* the generation is disabled; otherwise 1 to max(1, retry_attempts)
\* requests are sent, every request before the last one sent failed, and
\* the last one sent gave the 402 marker, the content of a response, or,
\* as the request of the last attempt only, an error marker.
ApiContract ==
  api_result.called =>
    IF ~api_result.enabled
    THEN /\ api_result.ret.requests = 0
         /\ api_result.ret.value = ErrorMarker("deepseek_disabled")
    ELSE /\ api_result.ret.requests \in 1..attempts
         /\ \A i \in 1..(api_result.ret.requests - 1) : Failed(i)
         /\ IF api_outcomes[api_result.ret.requests].kind = "402"
            THEN api_result.ret.value = ErrorMarker("402")
            ELSE IF api_outcomes[api_result.ret.requests].kind = "response"
            THEN api_result.ret.value = api_outcomes[api_result.ret.requests].content
            ELSE /\ api_result.ret.requests = attempts
                 /\ api_result.ret.value =
                      ErrorMarker(api_outcomes[api_result.ret.requests].kind)

\* C26 as stated: the call keeps to the contract above and never returns
\* None.
C26_AsStated ==
  /\ ApiContract
  /\ api_result.called => api_result.ret.value # NullContent

\* C26: the call returns on every path, after at most max(1,
\* retry_attempts) requests: at once with the content of the first response
\* or the 402 marker, with an error marker only after the last attempt
\* failed, and without a request when the generation is disabled; it
\* returns None only as the content of a response, when that content is the
\* JSON value null.
C26_ApiReturns ==
  /\ ApiContract
  /\ (api_result.called /\ api_result.ret.value = NullContent) =>
       /\ api_result.enabled
       /\ api_result.ret.answered
       /\ api_outcomes[api_result.ret.requests].kind = "response"

\* A call whose first request timed out and whose second request was
\* answered, while the third would have failed.
C26_Witness ==
  /\ api_result.called
  /\ api_result.enabled
  /\ api_outcomes[1].kind = "timeout"
  /\ api_outcomes[2].kind = "response"
  /\ api_outcomes[3].kind = "exception"
  /\ api_result.ret.requests = 2
  /\ api_result.ret.answered


(***************************************************************************)
(* C27                                                                     *)
(***************************************************************************)
\* total_tasks = sum(len(practice_tasks.get(t, [])) for t in task_types)
TotalTasks(tasks) ==
  Len(Get(tasks, "easy", <<>>)) + Len(Get(tasks, "medium", <<>>))
    + Len(Get(tasks, "hard", <<>>))

\* The completed tasks are distinct keys of tasks of the stored task map,
\* each checked at least once, so they are no more than the tasks; without
\* a task map there is none.
CompletedKeysValid ==
  IF practice_tasks.present
  THEN /\ \A i, j \in 1..Len(completed_tasks) :
            completed_tasks[i] = completed_tasks[j] => i = j
       /\ \A i \in 1..Len(completed_tasks) :
            /\ completed_tasks[i][1] \in TierNames
            /\ completed_tasks[i][2] >= 0
            /\ completed_tasks[i][2] <
                 Len(Get(practice_tasks.value, completed_tasks[i][1], <<>>))
            /\ Get(task_attempts, completed_tasks[i], 0) >= 1
       /\ Len(completed_tasks) <= TotalTasks(practice_tasks.value)
  ELSE completed_tasks = <<>>

\* While the task map stays, the list changes only by the key of the task
\* shown, in a check of that task, and an answer that compares equal to the
\* answer of the task exists.
CompletedStep ==
  (/\ practice_tasks.present
   /\ practice_tasks' = practice_tasks
   /\ completed_tasks' # completed_tasks) =>
    /\ OnTask
    /\ completed_tasks' = Append(completed_tasks, TaskKey)
    /\ Get(task_attempts', TaskKey, 0) = Get(task_attempts, TaskKey, 0) + 1
    /\ \E answer \in TypedAnswers :
         IsCorrect(answer, TasksOfType[current_task_index + 1])

\* C27: the list of completed tasks has no duplicate and holds only keys of
\* tasks of the current task map that were answered correctly, so the
\* number of completed tasks, which the completion screen saves as
\* practice_completed, is between 0 and the total number of tasks, saved
\* as practice_total.
C27_CompletedTasks == []CompletedKeysValid /\ [][CompletedStep]_vars

\* The completion screen with one task of several completed.
C27_Witness ==
  /\ current_stage = "practice"
  /\ CompletionShown(practice_tasks, current_task_type, current_task_index)
  /\ Len(completed_tasks) = 1
  /\ TotalTasks(practice_tasks.value) > 1
  /\ Get(task_attempts, completed_tasks[1], 0) > 1


(***************************************************************************)
(* C28                                                                     *)
(***************************************************************************)
\* C28: whenever the practice stage holds a task map, the tasks were
\* generated for the current video.
C28_TasksOfThisVideo ==
  (current_stage = "practice" /\ practice_tasks.present) =>
    tdata.title = CurrentTitle


(***************************************************************************)
(* C29                                                                     *)
(***************************************************************************)
\* The completion screen is shown and the practice score of the current
\* topic is saved.
PracticeSaved ==
  /\ current_stage = "practice"
  /\ CompletionShown(practice_tasks, current_task_type, current_task_index)
  /\ current_topic_key \in completed_topics

\* C29: a practice session that shows a task reaches the completion screen,
\* where the practice score of the current topic is saved, if the learner
\* keeps acting on the task shown.
C29_PracticeTerminates == OnTask ~> PracticeSaved

\* The completion screen reached after the attempts of a task were used up.
C29_Witness ==
  /\ PracticeSaved
  /\ \E key \in DOMAIN task_attempts : task_attempts[key] = max_attempts_per_task


(***************************************************************************)
(* C30                                                                     *)
(***************************************************************************)
\* A session that starts after a save loads the payload of the latest
\* save, which is the content of the local file.
RoundTripStep ==
  \A s \in Sessions :
    (~progress[s].present /\ progress'[s].present /\ local_file.present) =>
      progress'[s].value = local_file.value

\* C30: load_progress in a new session returns the progress of the latest
\* save_progress, for every outcome of the cloud calls.
C30_RoundTrip == [][RoundTripStep]_vars

=============================================================================
